---- MODULE Spec2Model ----
(***************************************************************************)
(* Orchestration core of gigabot: the message bus (bus/queue.py), the      *)
(* capability registry (agent/tools/registry.py), the channel adapter's    *)
(* access check and forward operation (channels/base.py), the channel      *)
(* manager (channels/manager.py) and the subagent supervisor with its      *)
(* reduced reasoning loop (agent/subagent.py); and, around the core, the   *)
(* heartbeat service, the interactive CLI session, the message tool, the   *)
(* GigaChat request conversion and the RAG tool's chunking.                *)
(*                                                                         *)
(* Python values are modelled as follows.  A str that the code inspects    *)
(* character by character (a sender id) is a sequence of one-character     *)
(* strings; every other text is either an opaque token or a tuple of the   *)
(* pieces an f-string joins.  The outcome of a call that may raise is a    *)
(* record [kind |-> "return" | "raise", value |-> ...].                    *)
(***************************************************************************)
EXTENDS Naturals, Integers, Sequences, FiniteSets, TLC

VARIABLES
    inbound,         \* MessageBus.inbound: the queued InboundMessages, head first
    outbound,        \* MessageBus.outbound: the queued OutboundMessages, head first
    pubIn,           \* history: every message passed to publish_inbound, in call order
    conIn,           \* history: every message returned by consume_inbound, in call order
    pubOut,          \* history: every message passed to publish_outbound
    conOut,          \* history: every message returned by consume_outbound
    consumers,       \* per consumer unit: its position in consume_inbound / consume_outbound
    _getters,        \* asyncio.Queue._getters of each queue: the suspended consumers, oldest first
    allow_from,      \* BaseChannel.config.allow_from
    replies,         \* history: the reply_text calls of the Telegram handlers, in call order
    _typing_tasks,   \* TelegramChannel._typing_tasks: the chat ids with a typing-indicator unit
    _chat_ids,       \* TelegramChannel._chat_ids: sender id -> chat id of its last message
    _tools,          \* ToolRegistry._tools of the long-lived registry: name -> tool
    execCalls,       \* history: number of Tool.execute invocations made through _tools
    uuids,           \* the values str(uuid.uuid4())[:8] returns to the coming spawns, in order
    provider,        \* the provider mock: the tool-call batches and final contents it answers with
    _running_tasks,  \* SubagentManager._running_tasks: task id -> background unit
    sub,             \* per background unit (asyncio.Task): the run of _run_subagent
    announced,       \* history: per unit, the messages its run passed to publish_inbound
    token,           \* TelegramConfig.token: the configured bot token, "" when there is none
    channels,        \* ChannelManager.channels: the registered adapters' names, in dict order
    _dispatch_task,  \* ChannelManager._dispatch_task: None, or the unit running _dispatch_outbound
    ready,           \* the event loop's queue of created units that have not taken their first step
    start_tasks,     \* per adapter: the unit running _start_channel
    start_all_pc,    \* position of the start_all coroutine
    stop_all_pc,     \* position of the stop_all coroutine, and the adapter whose stop() it awaits
    sent,            \* history: the channel.send calls of the dispatcher, in call order
    stopped,         \* history: the channel.stop calls of stop_all, in call order
    log,             \* history: the lines the channel manager has logged
    heartbeat,       \* HeartbeatService: its fields and the units running _run_loop
    cli,             \* the interactive CLI session of run_interactive
    message_tool,    \* MessageTool: its fields and the calls of its send callback
    rag,             \* RAGTool._chunk_text: its arguments and the locals of its loop
    event            \* history: the operation that made the last step, its inputs and its result

busVars  == <<inbound, outbound, pubIn, conIn, pubOut, conOut>>
conVars  == <<consumers, _getters>>
chanVars == <<allow_from, replies, _typing_tasks, _chat_ids>>
regVars  == <<_tools, execCalls>>
subVars  == <<uuids, provider, _running_tasks, sub, announced>>
manVars  == <<token, channels, _dispatch_task, ready, start_tasks, start_all_pc, stop_all_pc,
              sent, stopped, log>>
svcVars  == <<heartbeat, cli, message_tool, rag>>
vars     == <<inbound, outbound, pubIn, conIn, pubOut, conOut, consumers, _getters,
              allow_from, replies, _typing_tasks, _chat_ids,
              _tools, execCalls, uuids, provider, _running_tasks, sub, announced,
              token, channels, _dispatch_task, ready, start_tasks, start_all_pc,
              stop_all_pc, sent, stopped, log, heartbeat, cli, message_tool, rag, event>>

\* Python's None where a str or a list is expected, and where an object is expected
None == <<"None">>
Nothing == [none |-> TRUE]

Range(s) == {s[i] : i \in 1..Len(s)}

\* `x or default` for a value that is None or an empty list / dict
OrElse(x, default) == IF x = None \/ x = <<>> THEN default ELSE x

Ret(v) == [kind |-> "return", value |-> v]
Exc(e) == [kind |-> "raise", value |-> e]

(***************************************************************************)
(* Bounds of the model                                                     *)
(***************************************************************************)
MaxPublish == 3      \* publish calls per queue in BusSpec
MaxInbound == 2      \* forwarded messages held by the inbound queue in ChanSpec
MaxExecCalls == 2    \* Tool.execute invocations in RegSpec
MaxTicks == 2        \* on_heartbeat invocations of a run of the heartbeat service
MaxProgress == 1     \* progress messages of the reasoning loop in CliSpec
MaxText == 4         \* characters of a text handed to _chunk_text
MaxPasses == 6       \* passes of the loop of _chunk_text that are followed
MaxReplies == 2      \* reply_text calls of the Telegram handlers in ChanSpec

(***************************************************************************)
(* bus/events.py: InboundMessage, OutboundMessage                          *)
(***************************************************************************)
InboundMessage(channel, sender_id, chat_id, content, media, metadata) ==
    [channel |-> channel, sender_id |-> sender_id, chat_id |-> chat_id,
     content |-> content, media |-> media, metadata |-> metadata]

OutboundMessage(channel, chat_id, content) ==
    [channel |-> channel, chat_id |-> chat_id, content |-> content,
     media |-> <<>>, metadata |-> <<>>]

(***************************************************************************)
(* bus/queue.py: MessageBus over two asyncio.Queue objects.  put waits     *)
(* while the queue is full and wakes the oldest suspended getter; get      *)
(* suspends while the queue is empty, and a woken getter looks at the      *)
(* queue again when it is resumed.                                         *)
(***************************************************************************)
\* asyncio.Queue(): maxsize defaults to 0
maxsize == 0

full_at_two(q) == Len(q) >= 2

\* asyncio.Queue.full
full(q) == IF maxsize <= 0 THEN FALSE ELSE Len(q) >= maxsize

publish_inbound_lifo(msg) ==
    /\ inbound' = <<msg>> \o inbound
    /\ pubIn' = Append(pubIn, msg)
    /\ outbound' = outbound

\* await self.inbound.put(msg): the outbound queue is not touched
publish_inbound(msg) ==
    /\ ~full(inbound)
    /\ inbound' = Append(inbound, msg)
    /\ pubIn' = Append(pubIn, msg)
    /\ outbound' = outbound

consume_inbound_peek ==
    /\ inbound # <<>>
    /\ inbound' = inbound
    /\ conIn' = Append(conIn, Head(inbound))
    /\ outbound' = outbound

\* return await self.inbound.get(), from the point where the queue holds an item
consume_inbound ==
    /\ inbound # <<>>
    /\ inbound' = Tail(inbound)
    /\ conIn' = Append(conIn, Head(inbound))
    /\ outbound' = outbound

publish_outbound_shared(msg) ==
    /\ ~full(inbound)
    /\ inbound' = Append(inbound, msg)
    /\ pubOut' = Append(pubOut, msg)
    /\ outbound' = outbound

\* await self.outbound.put(msg): the inbound queue is not touched
publish_outbound(msg) ==
    /\ ~full(outbound)
    /\ outbound' = Append(outbound, msg)
    /\ pubOut' = Append(pubOut, msg)
    /\ inbound' = inbound

consume_outbound_newest ==
    /\ outbound # <<>>
    /\ outbound' = SubSeq(outbound, 1, Len(outbound) - 1)
    /\ conOut' = Append(conOut, outbound[Len(outbound)])

\* return await self.outbound.get(), from the point where the queue holds an item
consume_outbound ==
    /\ outbound # <<>>
    /\ outbound' = Tail(outbound)
    /\ conOut' = Append(conOut, Head(outbound))
    /\ inbound' = inbound

inbound_size == Len(inbound)
outbound_size == Len(outbound)

\* the units that call consume_inbound / consume_outbound
Consumers == {"k1", "k2"}

QueueNames == {"inbound", "outbound"}

Idle == [pc |-> "idle", queue |-> "none"]

BusInit ==
    /\ inbound = <<>>
    /\ outbound = <<>>
    /\ pubIn = <<>>
    /\ conIn = <<>>
    /\ pubOut = <<>>
    /\ conOut = <<>>
    /\ consumers = [k \in Consumers |-> Idle]
    /\ _getters = [q \in QueueNames |-> <<>>]

\* the messages the bus is driven with
BusInMsgs ==
    {InboundMessage("telegram", <<"1">>, "c1", txt, <<>>, <<>>) : txt \in {"hi", "yo"}}

BusOutMsgs ==
    {OutboundMessage("telegram", "c1", "re"), OutboundMessage("cli", "direct", "ok")}

Items(q) == IF q = "inbound" THEN inbound ELSE outbound

\* asyncio.Queue._wakeup_next(self._getters): the oldest suspended getter is
\* made ready to run
wakeup_next(q) ==
    IF _getters[q] = <<>>
    THEN UNCHANGED <<consumers, _getters>>
    ELSE /\ consumers' = [consumers EXCEPT ![Head(_getters[q])].pc = "woken"]
         /\ _getters' = [_getters EXCEPT ![q] = Tail(@)]

PublishInbound ==
    /\ Len(pubIn) < MaxPublish
    /\ \E msg \in BusInMsgs : publish_inbound(msg)
    /\ wakeup_next("inbound")
    /\ event' = [op |-> "publish_inbound"]
    /\ UNCHANGED <<pubOut, conIn, conOut, chanVars, manVars, _tools, execCalls, subVars>>
    /\ UNCHANGED svcVars

\* a consume_inbound call made while the queue holds an item
ConsumeInbound ==
    /\ consume_inbound
    /\ event' = [op |-> "consume_inbound"]
    /\ UNCHANGED <<pubOut, pubIn, conOut, conVars, chanVars, manVars, _tools, execCalls, subVars>>
    /\ UNCHANGED svcVars

PublishOutbound ==
    /\ Len(pubOut) < MaxPublish
    /\ \E msg \in BusOutMsgs : publish_outbound(msg)
    /\ wakeup_next("outbound")
    /\ event' = [op |-> "publish_outbound"]
    /\ UNCHANGED <<pubIn, conIn, conOut, chanVars, manVars, _tools, execCalls, subVars>>
    /\ UNCHANGED svcVars

\* a consume_outbound call made while the queue holds an item
ConsumeOutbound ==
    /\ consume_outbound
    /\ event' = [op |-> "consume_outbound"]
    /\ UNCHANGED <<pubIn, conIn, pubOut, conVars, chanVars, manVars, _tools, execCalls, subVars>>
    /\ UNCHANGED svcVars

\* get: the queue is empty, the caller's future joins _getters and is awaited
Suspend(k, q) ==
    /\ consumers' = [consumers EXCEPT ![k] = [pc |-> "waiting", queue |-> q]]
    /\ _getters' = [_getters EXCEPT ![q] = Append(@, k)]
    /\ event' = [op |-> "suspend", consumer |-> k, queue |-> q]
    /\ UNCHANGED <<inbound, outbound, pubIn, conIn, pubOut, conOut>>

\* get: the queue holds an item, get_nowait returns the oldest
Take(k, q) ==
    /\ IF q = "inbound"
       THEN consume_inbound /\ UNCHANGED conOut
       ELSE consume_outbound /\ UNCHANGED conIn
    /\ consumers' = [consumers EXCEPT ![k] = Idle]
    /\ event' = [op |-> "consume_" \o q, consumer |-> k, item |-> Head(Items(q))]
    /\ UNCHANGED <<pubIn, pubOut, _getters>>

\* a unit calls consume_inbound or consume_outbound
ConsumeCall(k) ==
    /\ consumers[k].pc = "idle"
    /\ \E q \in QueueNames :
          IF Items(q) = <<>> THEN Suspend(k, q) ELSE Take(k, q)
    /\ UNCHANGED <<chanVars, manVars, _tools, execCalls, subVars>>
    /\ UNCHANGED svcVars

\* a woken getter runs again: while self.empty() is evaluated once more
ConsumeResume(k) ==
    /\ consumers[k].pc = "woken"
    /\ LET q == consumers[k].queue
       IN  IF Items(q) = <<>> THEN Suspend(k, q) ELSE Take(k, q)
    /\ UNCHANGED <<chanVars, manVars, _tools, execCalls, subVars>>
    /\ UNCHANGED svcVars

get_cancelled_item_lost(k) ==
    LET q == consumers[k].queue
    IN  /\ consumers' = [consumers EXCEPT ![k] = Idle]
        /\ _getters' = [_getters EXCEPT ![q] = SelectSeq(@, LAMBDA j : j # k)]
        /\ IF consumers[k].pc = "woken" /\ q = "outbound" /\ outbound # <<>>
           THEN outbound' = Tail(outbound)
           ELSE outbound' = outbound
        /\ UNCHANGED <<inbound, pubIn, conIn, pubOut, conOut>>

\* asyncio.Queue.get, `except:` around `await getter`: the future leaves
\* _getters; a getter that was woken already passes the wake-up on when the
\* queue still holds an item; the queue keeps its items
get_cancelled(k) ==
    LET q == consumers[k].queue
        rest == SelectSeq(_getters[q], LAMBDA j : j # k)
    IN  /\ IF consumers[k].pc = "woken" /\ Items(q) # <<>> /\ rest # <<>>
           THEN /\ consumers' = [consumers EXCEPT ![k] = Idle,
                                                  ![Head(rest)].pc = "woken"]
                /\ _getters' = [_getters EXCEPT ![q] = Tail(rest)]
           ELSE /\ consumers' = [consumers EXCEPT ![k] = Idle]
                /\ _getters' = [_getters EXCEPT ![q] = rest]
        /\ UNCHANGED <<inbound, outbound, pubIn, conIn, pubOut, conOut>>

\* the unit is cancelled inside get
ConsumeCancel(k) ==
    /\ consumers[k].pc \in {"waiting", "woken"}
    /\ get_cancelled(k)
    /\ event' = [op |-> "consume_cancelled", consumer |-> k,
                 queue |-> consumers[k].queue]
    /\ UNCHANGED <<chanVars, manVars, _tools, execCalls, subVars>>
    /\ UNCHANGED svcVars

(***************************************************************************)
(* channels/base.py: BaseChannel.is_allowed and _handle_message;           *)
(* channels/telegram.py: _sender_id and _forward_command                   *)
(***************************************************************************)
Contains(s, ch) == \E i \in 1..Len(s) : s[i] = ch

FirstIndex(s, ch) == CHOOSE i \in 1..Len(s) : s[i] = ch /\ \A j \in 1..(i - 1) : s[j] # ch

\* str.split(sep): the pieces between the separators, empty pieces included
RECURSIVE split(_, _)
split(s, sep) ==
    IF ~Contains(s, sep) THEN <<s>>
    ELSE LET i == FirstIndex(s, sep)
         IN  <<SubSeq(s, 1, i - 1)>> \o split(SubSeq(s, i + 1, Len(s)), sep)

is_allowed_empty_parts(sender_id) ==
    LET allow_list == allow_from
        sender_str == sender_id
    IN  IF allow_list = {} THEN TRUE
        ELSE IF sender_str \in allow_list THEN TRUE
        ELSE IF Contains(sender_str, "|")
             THEN \E part \in Range(split(sender_str, "|")) : part \in allow_list
             ELSE FALSE

is_allowed(sender_id) ==
    LET allow_list == allow_from
        sender_str == sender_id
    IN  IF allow_list = {} THEN TRUE
        ELSE IF sender_str \in allow_list THEN TRUE
        ELSE IF Contains(sender_str, "|")
             THEN \E part \in Range(split(sender_str, "|")) :
                      part # <<>> /\ part \in allow_list
             ELSE FALSE

ChannelName == "telegram"

_handle_message_unchecked(sender_id, chat_id, content, media, metadata) ==
    publish_inbound(InboundMessage(ChannelName, sender_id, chat_id, content,
                                   OrElse(media, <<>>), OrElse(metadata, <<>>)))

_handle_message(sender_id, chat_id, content, media, metadata) ==
    IF ~is_allowed(sender_id)
    THEN UNCHANGED <<inbound, pubIn>>
    ELSE publish_inbound(InboundMessage(ChannelName, sender_id, chat_id, content,
                                        OrElse(media, <<>>), OrElse(metadata, <<>>)))

\* TelegramChannel._sender_id: "<id>|<username>" when the user has a username
_sender_id(user) ==
    LET sid == user.id
    IN  IF user.username # None /\ user.username # <<>>
        THEN sid \o <<"|">> \o user.username
        ELSE sid

\* the allow-lists a channel is configured with
AllowLists ==
    { {}, {<<"1">>}, {<<"u">>}, {<<"1">>, <<"v">>}, {<<"1", "|", "u">>}, {<<>>, <<"2">>} }

\* sender ids handed to _handle_message by an adapter
Senders ==
    { <<"1">>, <<"2">>, <<"u">>, <<"1", "|", "u">>, <<"2", "|", "v">>, <<"2", "|">>, <<"|">> }

TelegramUsers ==
    [id : {<<"1">>, <<"2">>}, username : {None, <<"u">>, <<"v">>}]

\* Updates handed to TelegramChannel._forward_command
Updates ==
    [message : {Nothing, [chat_id |-> "c1", text |-> "/new"]},
     effective_user : {Nothing} \cup TelegramUsers]

\* no handler has run
TelegramInit ==
    /\ replies = <<>>
    /\ _typing_tasks = {}
    /\ _chat_ids = <<>>

ChanInit ==
    /\ allow_from \in AllowLists
    /\ TelegramInit

HandleMessage ==
    /\ Len(inbound) < MaxInbound
    /\ \E sender_id \in Senders, media \in {None, <<"photo.jpg">>} :
          /\ _handle_message(sender_id, "c1", "hi", media, None)
          /\ event' = [op |-> "_handle_message", sender_id |-> sender_id]
    /\ UNCHANGED <<outbound, conIn, pubOut, conOut, chanVars, conVars, manVars, _tools, execCalls, subVars>>
    /\ UNCHANGED svcVars

ForwardCommand ==
    /\ Len(inbound) < MaxInbound
    /\ \E update \in Updates :
          /\ IF update.message = Nothing \/ update.effective_user = Nothing
             THEN UNCHANGED <<inbound, pubIn>>
             ELSE _handle_message(_sender_id(update.effective_user),
                                  update.message.chat_id, update.message.text, None, None)
          /\ event' = [op |-> "_forward_command",
                       sender_id |-> IF update.effective_user = Nothing THEN None
                                     ELSE _sender_id(update.effective_user),
                       forwarded |-> update.message # Nothing /\ update.effective_user # Nothing]
    /\ UNCHANGED <<outbound, conIn, pubOut, conOut, chanVars, conVars, manVars, _tools, execCalls, subVars>>
    /\ UNCHANGED svcVars

(***************************************************************************)
(* agent/tools/base.py: the Tool contract, as the registry consumes it.    *)
(* A tool is [name, impl]; its behaviour is a function of the arguments it *)
(* is handed, which are classed by what they make the tool do:             *)
(*   "ok"     valid arguments, execute returns a result                    *)
(*   "boom"   valid arguments, execute raises                              *)
(*   "bad"    validate_params reports errors                               *)
(*   "vraise" validate_params itself raises (arguments of the wrong shape) *)
(***************************************************************************)
Params == {"ok", "boom", "bad", "vraise"}

Tool(name, impl) == [name |-> name, impl |-> impl]

validate_params(tool, params) ==
    CASE params = "bad"    -> Ret(<<"missing required path">>)
      [] params = "vraise" -> Exc("TypeError")
      [] OTHER             -> Ret(<<>>)

tool_execute(tool, params) ==
    IF params = "boom" THEN Exc("OSError") ELSE Ret(<<"result of ", tool.name, tool.impl>>)

\* Updates handed to the /start and /help handlers and to _on_message
TelegramUpdates ==
    [message : {Nothing, [chat_id |-> "c1", text |-> "hi"]},
     effective_user : {Nothing, [id |-> <<"1">>, username |-> <<"u">>],
                       [id |-> <<"2">>, username |-> None]}]

SenderOf(update) ==
    IF update.effective_user = Nothing THEN None ELSE _sender_id(update.effective_user)

\* update.message.reply_text(text)
reply_text(handler, update, text) ==
    replies' = Append(replies, [handler |-> handler, sender_id |-> SenderOf(update),
                                chat_id |-> update.message.chat_id, text |-> text])

\* TelegramChannel._on_start: the greeting is sent to whoever sent /start
_on_start(update) ==
    IF update.message = Nothing \/ update.effective_user = Nothing
    THEN UNCHANGED replies
    ELSE reply_text("_on_start", update, <<"Hi ", "first_name", "! I'm GigaBot.">>)

\* TelegramChannel._on_help: the command list is sent to whoever sent /help
_on_help(update) ==
    IF update.message = Nothing
    THEN UNCHANGED replies
    ELSE reply_text("_on_help", update, <<"GigaBot commands:">>)

\* TelegramChannel._stop_typing: the entry of the chat is popped (and its unit cancelled)
_stop_typing(tasks, chat_id) == tasks \ {chat_id}

\* TelegramChannel._start_typing: a new typing-indicator unit replaces the chat's old one
_start_typing(tasks, chat_id) == _stop_typing(tasks, chat_id) \cup {chat_id}

OnStart ==
    /\ Len(replies) < MaxReplies
    /\ \E update \in TelegramUpdates :
          /\ _on_start(update)
          /\ event' = [op |-> "_on_start", sender_id |-> SenderOf(update),
                       handled |-> update.message # Nothing /\ update.effective_user # Nothing]
    /\ UNCHANGED <<busVars, conVars, allow_from, _typing_tasks, _chat_ids, manVars,
                   regVars, subVars>>
    /\ UNCHANGED svcVars

OnHelp ==
    /\ Len(replies) < MaxReplies
    /\ \E update \in TelegramUpdates :
          /\ _on_help(update)
          /\ event' = [op |-> "_on_help", sender_id |-> SenderOf(update),
                       handled |-> update.message # Nothing]
    /\ UNCHANGED <<busVars, conVars, allow_from, _typing_tasks, _chat_ids, manVars,
                   regVars, subVars>>
    /\ UNCHANGED svcVars

\* TelegramChannel._on_message: the chat id is remembered, the content and the
\* downloaded media are collected, the typing indicator is started and the
\* message is handed to _handle_message
OnMessage ==
    /\ Len(inbound) < MaxInbound
    /\ \E update \in TelegramUpdates, media_paths \in {<<"photo.jpg">>} :
          /\ IF update.message = Nothing \/ update.effective_user = Nothing
             THEN UNCHANGED <<inbound, pubIn, _typing_tasks, _chat_ids>>
             ELSE LET sender_id == SenderOf(update)
                      str_chat_id == update.message.chat_id
                  IN  /\ _chat_ids' = [k \in DOMAIN _chat_ids \cup {sender_id} |->
                                          IF k = sender_id THEN str_chat_id ELSE _chat_ids[k]]
                      /\ _typing_tasks' = _start_typing(_typing_tasks, str_chat_id)
                      /\ _handle_message(sender_id, str_chat_id, update.message.text,
                                         media_paths,
                                         <<<<"user_id", update.effective_user.id>>,
                                           <<"username", update.effective_user.username>>>>)
          /\ event' = [op |-> "_on_message", sender_id |-> SenderOf(update),
                       handled |-> update.message # Nothing /\ update.effective_user # Nothing]
    /\ UNCHANGED <<outbound, conIn, pubOut, conOut, conVars, allow_from, replies, manVars,
                   _tools, execCalls, subVars>>
    /\ UNCHANGED svcVars

(***************************************************************************)
(* agent/tools/registry.py: ToolRegistry.  A registry is a function from   *)
(* the registered names to tools.  execute yields the call's outcome and   *)
(* the Tool.execute invocations it made.                                   *)
(***************************************************************************)
EmptyRegistry == <<>>

register_keep_first(tools, tool) ==
    [n \in DOMAIN tools \cup {tool.name} |-> IF n \in DOMAIN tools THEN tools[n] ELSE tool]

register(tools, tool) ==
    [n \in DOMAIN tools \cup {tool.name} |-> IF n = tool.name THEN tool ELSE tools[n]]

unregister(tools, name) ==
    [n \in DOMAIN tools \ {name} |-> tools[n]]

has(tools, name) == name \in DOMAIN tools

tool_names(tools) == DOMAIN tools

get_definitions(tools) == {<<"schema", tools[n].name, tools[n].impl>> : n \in DOMAIN tools}

execute_unvalidated(tools, name, params) ==
    IF name \notin DOMAIN tools
    THEN [out |-> Ret(<<"Error: Tool '", name, "' not found">>), invoked |-> <<>>]
    ELSE LET tool == tools[name]
             r == tool_execute(tool, params)
         IN  [out |-> IF r.kind = "raise"
                      THEN Ret(<<"Error executing ", name, ": ", r.value>>)
                      ELSE r,
              invoked |-> <<[tool |-> tool, params |-> params]>>]

execute_keyerror(tools, name, params) ==
    IF name \notin DOMAIN tools
    THEN [out |-> Exc("KeyError"), invoked |-> <<>>]
    ELSE LET tool == tools[name]
             errors == validate_params(tool, params)
         IN  IF errors.kind = "raise"
             THEN [out |-> Ret(<<"Error executing ", name, ": ", errors.value>>),
                   invoked |-> <<>>]
             ELSE IF errors.value # <<>>
             THEN [out |-> Ret(<<"Error: Invalid parameters for tool '", name, "': ",
                                 errors.value>>),
                   invoked |-> <<>>]
             ELSE LET r == tool_execute(tool, params)
                  IN  [out |-> IF r.kind = "raise"
                               THEN Ret(<<"Error executing ", name, ": ", r.value>>)
                               ELSE r,
                       invoked |-> <<[tool |-> tool, params |-> params]>>]

execute_uncaught(tools, name, params) ==
    IF name \notin DOMAIN tools
    THEN [out |-> Ret(<<"Error: Tool '", name, "' not found">>), invoked |-> <<>>]
    ELSE LET tool == tools[name]
             errors == validate_params(tool, params)
         IN  IF errors.kind = "raise"
             THEN [out |-> errors, invoked |-> <<>>]
             ELSE IF errors.value # <<>>
             THEN [out |-> Ret(<<"Error: Invalid parameters for tool '", name, "': ",
                                 errors.value>>),
                   invoked |-> <<>>]
             ELSE [out |-> tool_execute(tool, params),
                   invoked |-> <<[tool |-> tool, params |-> params]>>]

execute_raises_invalid(tools, name, params) ==
    IF name \notin DOMAIN tools
    THEN [out |-> Ret(<<"Error: Tool '", name, "' not found">>), invoked |-> <<>>]
    ELSE LET tool == tools[name]
             errors == validate_params(tool, params)
         IN  IF errors.kind = "raise"
             THEN [out |-> Ret(<<"Error executing ", name, ": ", errors.value>>),
                   invoked |-> <<>>]
             ELSE IF errors.value # <<>>
             THEN [out |-> Exc("ValueError"), invoked |-> <<>>]
             ELSE LET r == tool_execute(tool, params)
                  IN  [out |-> IF r.kind = "raise"
                               THEN Ret(<<"Error executing ", name, ": ", r.value>>)
                               ELSE r,
                       invoked |-> <<[tool |-> tool, params |-> params]>>]

execute(tools, name, params) ==
    IF name \notin DOMAIN tools
    THEN [out |-> Ret(<<"Error: Tool '", name, "' not found">>), invoked |-> <<>>]
    ELSE LET tool == tools[name]
             errors == validate_params(tool, params)
         IN  IF errors.kind = "raise"
             THEN [out |-> Ret(<<"Error executing ", name, ": ", errors.value>>),
                   invoked |-> <<>>]
             ELSE IF errors.value # <<>>
             THEN [out |-> Ret(<<"Error: Invalid parameters for tool '", name, "': ",
                                 errors.value>>),
                   invoked |-> <<>>]
             ELSE LET r == tool_execute(tool, params)
                  IN  [out |-> IF r.kind = "raise"
                               THEN Ret(<<"Error executing ", name, ": ", r.value>>)
                               ELSE r,
                       invoked |-> <<[tool |-> tool, params |-> params]>>]

ToolNames == {"file", "exec", "web"}
Impls == {"a", "b"}
CallNames == ToolNames \cup {"message"}

RegInit ==
    /\ _tools = EmptyRegistry
    /\ execCalls = 0

Register ==
    /\ \E name \in ToolNames, impl \in Impls :
          /\ _tools' = register(_tools, Tool(name, impl))
          /\ event' = [op |-> "register", name |-> name, tool |-> Tool(name, impl),
                       replaced |-> has(_tools, name)]
    /\ UNCHANGED <<busVars, chanVars, conVars, manVars, execCalls, subVars>>
    /\ UNCHANGED svcVars

Unregister ==
    /\ \E name \in ToolNames :
          /\ _tools' = unregister(_tools, name)
          /\ event' = [op |-> "unregister", name |-> name, present |-> has(_tools, name)]
    /\ UNCHANGED <<busVars, chanVars, conVars, manVars, execCalls, subVars>>
    /\ UNCHANGED svcVars

Execute ==
    /\ execCalls < MaxExecCalls
    /\ \E name \in CallNames, params \in Params :
          LET r == execute(_tools, name, params)
          IN  /\ execCalls' = execCalls + Len(r.invoked)
              /\ event' = [op |-> "execute", name |-> name, params |-> params,
                           registered |-> has(_tools, name),
                           out |-> r.out, invoked |-> r.invoked]
    /\ UNCHANGED <<busVars, chanVars, conVars, manVars, _tools, subVars>>
    /\ UNCHANGED svcVars

(***************************************************************************)
(* providers/base.py: LLMResponse and ToolCallRequest, and the provider    *)
(* mock.  A call of provider.chat either raises or returns a response; a   *)
(* response that requests tools carries one of the mock's batches,         *)
(* each request with a fresh id (the pair round, position).                *)
(***************************************************************************)
ToolCallRequest(id, name, arguments) == [id |-> id, name |-> name, arguments |-> arguments]

LLMResponse(content, tool_calls) == [content |-> content, tool_calls |-> tool_calls]

has_tool_calls(response) == Len(response.tool_calls) > 0

Call(name, arguments) == [name |-> name, arguments |-> arguments]

Batches ==
    { <<Call("file", "ok")>>,
      <<Call("web", "boom"), Call("file", "ok")>>,
      <<Call("message", "ok"), Call("exec", "bad"), Call("file", "vraise")>>,
      <<Call("spawn", "ok"), Call("file", "ok")>> }

WithIds(batch, round) ==
    [k \in 1..Len(batch) |-> ToolCallRequest(<<round, k>>, batch[k].name, batch[k].arguments)]

\* GigaChatProvider.chat around the API call: the parsed response, or, for an
\* exception of the call, a reply whose content is the error text
chat(api) ==
    IF api.kind = "raise"
    THEN Ret(LLMResponse(<<"Error calling GigaChat: ", api.value>>, <<>>))
    ELSE api

\* the provider call did not get a response of the model
ProviderFailed(o) == o.kind = "raise" \/ o = chat(Exc("APIError"))

\* a mock answering with these batches and these final contents
Mock(batches, contents) == [batches |-> batches, contents |-> contents]

ChatOutcomes(round) ==
    {Exc("ProviderError"), chat(Exc("APIError"))}
        \cup {Ret(LLMResponse(c, <<>>)) : c \in provider.contents}
        \cup {Ret(LLMResponse(None, WithIds(batch, round))) : batch \in provider.batches}

(***************************************************************************)
(* providers/gigachat_provider.py: the conversation sent with a request    *)
(* and the response parsed from the reply.  A string is JSON text when it  *)
(* is a pair <<"json", value>>, as AssistantMsg writes the arguments.      *)
(***************************************************************************)
\* json.loads(text) succeeds
is_json(text) == Len(text) = 2 /\ text[1] = "json"

\* gigachat.models.Messages
Messages(role, content, function_call) ==
    [role |-> role, content |-> content, function_call |-> function_call]

convert_assistant_content_only(msg) ==
    Messages("assistant", OrElse(msg.content, <<>>), Nothing)

\* role "assistant": the content, and the function_call made of the first entry
\* of tool_calls when there is one
convert_assistant(msg) ==
    Messages("assistant", OrElse(msg.content, <<>>),
             IF "tool_calls" \in DOMAIN msg /\ msg.tool_calls # <<>>
             THEN LET func == msg.tool_calls[1].function
                  IN  [name |-> func.name,
                       arguments |-> IF is_json(func.arguments) THEN func.arguments[2]
                                     ELSE <<>>]
             ELSE Nothing)

\* role "tool": the content when it is JSON text, else {"result": content} as JSON
convert_tool(msg) ==
    Messages("function",
             IF is_json(OrElse(msg.content, <<>>)) THEN msg.content
             ELSE <<"json", [result |-> OrElse(msg.content, <<>>)]>>,
             Nothing)

\* the GigaChat messages of one entry of the conversation: one, or none for a
\* role that is not converted
convert_message(msg) ==
    CASE msg.role = "system"    -> <<Messages("system", OrElse(msg.content, <<>>), Nothing)>>
      [] msg.role = "user"      -> <<Messages("user", OrElse(msg.content, <<>>), Nothing)>>
      [] msg.role = "assistant" -> <<convert_assistant(msg)>>
      [] msg.role = "tool"      -> <<convert_tool(msg)>>
      [] OTHER                  -> <<>>

RECURSIVE _convert_messages_to_gigachat(_)
_convert_messages_to_gigachat(messages) ==
    IF messages = <<>> THEN <<>>
    ELSE convert_message(Head(messages)) \o _convert_messages_to_gigachat(Tail(messages))

\* _parse_response: the requests of a reply that carries this function_call, or none
_parse_response(function_call) ==
    IF function_call = Nothing THEN <<>> ELSE <<function_call>>

\* the function calls the GigaChat mock answers with
FunctionCalls == {Call("file", "ok"), Call("web", "boom"), Call("exec", "bad")}

(***************************************************************************)
(* agent/subagent.py: SubagentManager                                      *)
(***************************************************************************)
max_iterations == 15

\* the background units asyncio.create_task can create, in creation order
UnitOrder == <<"u1", "u2">>

Units == Range(UnitOrder)

\* the values of str(uuid.uuid4())[:8]: a draw does not exclude an earlier one
IdSpace == {"3f2a9c1e", "b07d44e2"}

\* every sequence of n draws, and those whose draws are pairwise distinct
Draws(n) == [1..n -> IdSpace]

DistinctDraws(n) == {d \in Draws(n) : \A i, j \in 1..n : d[i] = d[j] => i = j}

TaskTexts == {<<"summarize report.pdf">>}

Origins ==
    { [channel |-> <<"cli">>, chat_id |-> <<"direct">>],
      [channel |-> <<"telegram">>, chat_id |-> <<"c1">>] }

NoTask ==
    [pc |-> "unspawned", task_id |-> "", task |-> <<>>, label |-> <<>>, origin |-> Nothing,
     iteration |-> 0, messages |-> <<>>, pending |-> <<>>, chats |-> 0,
     invocations |-> <<>>, outcome |-> Nothing, failed |-> FALSE, before |-> <<>>]

SubInit(draws, menu) ==
    /\ uuids = draws
    /\ provider = menu
    /\ _running_tasks = <<>>
    /\ sub = [t \in Units |-> NoTask]
    /\ announced = [t \in Units |-> <<>>]

get_running_count == Cardinality(DOMAIN _running_tasks)

SubagentTools_with_spawn ==
    register(register(register(register(EmptyRegistry, Tool("file", "FileTool")),
                               Tool("exec", "ExecTool")),
                      Tool("web", "WebTool")),
             Tool("spawn", "SpawnTool"))

SubagentTools_with_message ==
    register(register(register(register(EmptyRegistry, Tool("file", "FileTool")),
                               Tool("exec", "ExecTool")),
                      Tool("web", "WebTool")),
             Tool("message", "MessageTool"))

\* the registry _run_subagent builds: FileTool, ExecTool and WebTool
SubagentTools ==
    register(register(register(EmptyRegistry, Tool("file", "FileTool")),
                      Tool("exec", "ExecTool")),
             Tool("web", "WebTool"))

_build_subagent_prompt(task) == <<"# subagent prompt">>

FallbackResult == <<"Task completed but no final response was generated.">>

\* label or task[:30] + ("..." if len(task) > 30 else ""); the task texts are short
display_label(task, label) == IF label # None /\ label # <<>> THEN label ELSE task

_announce_result_chat_only(t, task_id, label, task, result, origin, status) ==
    LET status_text == IF status = "ok" THEN "completed successfully" ELSE "failed"
        announce_content ==
            <<"[Subagent '", label, "' ", status_text, "]", "Task: ", task,
              "Result:", result, "Summarize this naturally for the user.">>
        msg == InboundMessage("system", "subagent", origin.chat_id,
                              announce_content, <<>>, <<>>)
    IN  /\ publish_inbound(msg)
        /\ wakeup_next("inbound")
        /\ announced' = [announced EXCEPT ![t] = Append(@, msg)]

_announce_result(t, task_id, label, task, result, origin, status) ==
    LET status_text == IF status = "ok" THEN "completed successfully" ELSE "failed"
        announce_content ==
            <<"[Subagent '", label, "' ", status_text, "]", "Task: ", task,
              "Result:", result, "Summarize this naturally for the user.">>
        msg == InboundMessage("system", "subagent",
                              origin.channel \o <<":">> \o origin.chat_id,
                              announce_content, <<>>, <<>>)
    IN  /\ publish_inbound(msg)
        /\ wakeup_next("inbound")
        /\ announced' = [announced EXCEPT ![t] = Append(@, msg)]

\* d[key] = value
DictSet(d, key, value) ==
    [k \in DOMAIN d \cup {key} |-> IF k = key THEN value ELSE d[k]]

\* d.pop(key, None)
DictPop(d, key) == [k \in DOMAIN d \ {key} |-> d[k]]

\* the unit whose entry the map holds
HasEntry(t) == \E id \in DOMAIN _running_tasks : _running_tasks[id] = t

spawn_runs_first_step(bg_task, task_id, task, label, origin_channel, origin_chat_id) ==
    LET origin == [channel |-> origin_channel, chat_id |-> origin_chat_id]
    IN  /\ sub' = [sub EXCEPT ![bg_task] =
                      [NoTask EXCEPT !.pc = "chat", !.task_id = task_id,
                                     !.task = task,
                                     !.label = display_label(task, label),
                                     !.origin = origin, !.before = _running_tasks,
                                     !.iteration = 1, !.chats = 1,
                                     !.messages = <<[role |-> "system",
                                                     content |-> <<"# subagent prompt">>],
                                                    [role |-> "user", content |-> task]>>]]
        /\ _running_tasks' = DictSet(_running_tasks, task_id, bg_task)
        /\ event' = [op |-> "spawn", unit |-> bg_task, task_id |-> task_id,
                     task |-> task, origin_channel |-> origin_channel,
                     origin_chat_id |-> origin_chat_id,
                     out |-> Ret(<<"Subagent [", display_label(task, label),
                                   "] started (id: ", task_id, ")">>)]

\* spawn: the background unit is created, stored under task_id and given its done
\* callback before spawn returns; its coroutine has not started yet
spawn(bg_task, task_id, task, label, origin_channel, origin_chat_id) ==
    LET origin == [channel |-> origin_channel, chat_id |-> origin_chat_id]
    IN  /\ sub' = [sub EXCEPT ![bg_task] =
                      [NoTask EXCEPT !.pc = "scheduled", !.task_id = task_id,
                                     !.task = task,
                                     !.label = display_label(task, label),
                                     !.origin = origin, !.before = _running_tasks]]
        /\ _running_tasks' = DictSet(_running_tasks, task_id, bg_task)
        /\ event' = [op |-> "spawn", unit |-> bg_task, task_id |-> task_id,
                     task |-> task, origin_channel |-> origin_channel,
                     origin_chat_id |-> origin_chat_id,
                     out |-> Ret(<<"Subagent [", display_label(task, label),
                                   "] started (id: ", task_id, ")">>)]

\* the next unit create_task makes
NextUnit == UnitOrder[Cardinality({t \in Units : sub[t].pc # "unspawned"}) + 1]

Spawn ==
    /\ uuids # <<>>
    /\ \E task \in TaskTexts, origin \in Origins :
          spawn(NextUnit, Head(uuids), task, None, origin.channel, origin.chat_id)
    /\ uuids' = Tail(uuids)
    /\ UNCHANGED <<busVars, chanVars, conVars, manVars, regVars, provider, announced>>
    /\ UNCHANGED svcVars

\* the coroutine returns: its locals are gone and the background task is done
Return(t, op, result, status, escaped) ==
    /\ sub' = [sub EXCEPT ![t] = [@ EXCEPT !.pc = "done", !.iteration = 0,
                                           !.messages = <<>>, !.pending = <<>>,
                                           !.chats = 0, !.invocations = <<>>,
                                           !.outcome = Ret(None),
                                           !.failed = escaped]]
    /\ event' = [op |-> op, unit |-> t, finished |-> TRUE, status |-> status,
                 result |-> result, chats |-> sub[t].chats,
                 iteration |-> sub[t].iteration]

\* the result is announced and the coroutine returns
Finish(t, op, result, status, escaped) ==
    /\ _announce_result(t, sub[t].task_id, sub[t].label, sub[t].task, result, sub[t].origin, status)
    /\ Return(t, op, result, status, escaped)

on_exception_silent(t, op, e) ==
    /\ Return(t, op, <<"Error: ", e>>, "error", TRUE)
    /\ UNCHANGED <<inbound, pubIn, announced, conVars>>

on_exception_retry(t, op, e) ==
    /\ sub' = [sub EXCEPT ![t] = [@ EXCEPT !.pc = "chat"]]
    /\ event' = [op |-> op, unit |-> t, finished |-> FALSE]
    /\ UNCHANGED <<inbound, pubIn, announced, conVars>>

on_exception_as_ok(t, op, e) == Finish(t, op, <<"Error: ", e>>, "ok", TRUE)

\* except Exception as e: the error text is announced with status "error"
on_exception(t, op, e) == Finish(t, op, <<"Error: ", e>>, "error", TRUE)

or_fallback_kept(final_result) == final_result

\* if final_result is None: final_result = "Task completed but no final response
\* was generated."
or_fallback(final_result) ==
    IF final_result = None THEN FallbackResult ELSE final_result

loop_guard_inclusive(iteration) == iteration <= max_iterations

\* while iteration < max_iterations
loop_guard(iteration) == iteration < max_iterations

\* top of the while loop: the next provider.chat call is issued, or the loop is
\* left without a final result and the fallback text is announced
LoopHead(t, op, messages, invocations) ==
    IF loop_guard(sub[t].iteration)
    THEN /\ sub' = [sub EXCEPT ![t] = [@ EXCEPT !.pc = "chat",
                                               !.iteration = @ + 1,
                                               !.messages = messages,
                                               !.invocations = invocations,
                                               !.pending = <<>>,
                                               !.chats = @ + 1]]
         /\ event' = [op |-> op, unit |-> t, finished |-> FALSE]
         /\ UNCHANGED <<inbound, pubIn, announced, conVars>>
    ELSE Finish(t, op, or_fallback(None), "ok", FALSE)

SystemMsg(content) == [role |-> "system", content |-> content]

UserMsg(content) == [role |-> "user", content |-> content]

AssistantMsg(content, tool_calls) ==
    [role |-> "assistant", content |-> content,
     tool_calls |-> [k \in 1..Len(tool_calls) |->
                        [id |-> tool_calls[k].id, type |-> "function",
                         function |-> [name |-> tool_calls[k].name,
                                       arguments |-> <<"json", tool_calls[k].arguments>>]]]]

ToolMsg_id_from_name(tool_call_id, name, content) ==
    [role |-> "tool", tool_call_id |-> name, name |-> name, content |-> content]

ToolMsg(tool_call_id, name, content) ==
    [role |-> "tool", tool_call_id |-> tool_call_id, name |-> name, content |-> content]

iteration_order_reversed(tool_calls) ==
    [k \in 1..Len(tool_calls) |-> tool_calls[Len(tool_calls) + 1 - k]]

\* for tool_call in response.tool_calls: the requests in response order
iteration_order(tool_calls) == tool_calls

\* _run_subagent from its first step to the first provider.chat call
Start(t) ==
    /\ sub[t].pc = "scheduled"
    /\ LoopHead(t, "start", <<SystemMsg(_build_subagent_prompt(sub[t].task)),
                              UserMsg(sub[t].task)>>, <<>>)
    /\ UNCHANGED <<outbound, conIn, pubOut, conOut, chanVars, manVars, regVars,
                   uuids, provider, _running_tasks>>
    /\ UNCHANGED svcVars

\* provider.chat returns or raises; the response is either recorded with its
\* requests, or its content is the final result
ChatReturn(t) ==
    /\ sub[t].pc = "chat"
    /\ \E o \in ChatOutcomes(sub[t].iteration) :
          IF o.kind = "raise"
          THEN on_exception(t, "chat_failed", o.value)
          ELSE LET response == o.value
               IN  IF has_tool_calls(response)
                   THEN /\ sub' = [sub EXCEPT ![t] =
                                     [@ EXCEPT !.pc = "tool",
                                               !.messages = Append(@,
                                                   AssistantMsg(OrElse(response.content, <<>>),
                                                                response.tool_calls)),
                                               !.pending = iteration_order(response.tool_calls)]]
                        /\ event' = [op |-> "chat", unit |-> t, finished |-> FALSE]
                        /\ UNCHANGED <<inbound, pubIn, announced, conVars>>
                   ELSE LET final_result == response.content
                        IN  Finish(t, IF ProviderFailed(o) THEN "chat_failed" ELSE "chat",
                                   or_fallback(final_result), "ok", FALSE)
    /\ UNCHANGED <<outbound, conIn, pubOut, conOut, chanVars, manVars, regVars,
                   uuids, provider, _running_tasks>>
    /\ UNCHANGED svcVars

\* one pass of `for tool_call in response.tool_calls`: the registry is invoked for
\* the next request and its result appended; after the last request the loop
\* goes back to its head
ToolStep(t) ==
    /\ sub[t].pc = "tool"
    /\ LET tool_call == Head(sub[t].pending)
           r == execute(SubagentTools, tool_call.name, tool_call.arguments)
           messages == Append(sub[t].messages,
                              ToolMsg(tool_call.id, tool_call.name, r.out.value))
           invocations == Append(sub[t].invocations,
                                 [id |-> tool_call.id, out |-> r.out,
                                  invoked |-> r.invoked])
       IN  IF r.out.kind = "raise"
           THEN on_exception(t, "tool", r.out.value)
           ELSE IF Tail(sub[t].pending) # <<>>
           THEN /\ sub' = [sub EXCEPT ![t] =
                             [@ EXCEPT !.messages = messages,
                                       !.pending = Tail(@),
                                       !.invocations = invocations]]
                /\ event' = [op |-> "tool", unit |-> t, finished |-> FALSE]
                /\ UNCHANGED <<inbound, pubIn, announced, conVars>>
           ELSE LoopHead(t, "tool", messages, invocations)
    /\ UNCHANGED <<outbound, conIn, pubOut, conOut, chanVars, manVars, regVars,
                   uuids, provider, _running_tasks>>
    /\ UNCHANGED svcVars

on_cancelled_announces(t) ==
    /\ _announce_result(t, sub[t].task_id, sub[t].label, sub[t].task,
                        <<"Error: ", "CancelledError">>, sub[t].origin, "error")
    /\ sub' = [sub EXCEPT ![t] = [@ EXCEPT !.pc = "done", !.iteration = 0,
                                           !.messages = <<>>, !.pending = <<>>,
                                           !.chats = 0, !.invocations = <<>>,
                                           !.outcome = Exc("CancelledError")]]

\* CancelledError is not an Exception: `except Exception` lets it pass, nothing
\* is announced and the background task ends cancelled
on_cancelled(t) ==
    /\ sub' = [sub EXCEPT ![t] = [@ EXCEPT !.pc = "done", !.iteration = 0,
                                           !.messages = <<>>, !.pending = <<>>,
                                           !.chats = 0, !.invocations = <<>>,
                                           !.outcome = Exc("CancelledError")]]
    /\ UNCHANGED <<inbound, pubIn, announced, conVars>>

\* the background task is cancelled before its first step or at the await it
\* is suspended in (provider.chat, tools.execute)
Cancel(t) ==
    /\ sub[t].pc \in {"scheduled", "chat", "tool"}
    /\ on_cancelled(t)
    /\ event' = [op |-> "cancelled", unit |-> t, at |-> sub[t].pc, finished |-> FALSE]
    /\ UNCHANGED <<outbound, conIn, pubOut, conOut, chanVars, manVars, regVars,
                   uuids, provider, _running_tasks>>
    /\ UNCHANGED svcVars

\* the done callback added by spawn: _running_tasks.pop(task_id, None)
Reap(t) ==
    /\ sub[t].pc = "done"
    /\ _running_tasks' = DictPop(_running_tasks, sub[t].task_id)
    /\ sub' = [sub EXCEPT ![t] = [@ EXCEPT !.pc = "reaped"]]
    /\ event' = [op |-> "reap", unit |-> t, task_id |-> sub[t].task_id]
    /\ UNCHANGED <<busVars, chanVars, conVars, manVars, regVars, uuids, provider, announced>>
    /\ UNCHANGED svcVars

(***************************************************************************)
(* channels/manager.py: ChannelManager.  The units it creates take their   *)
(* first step in creation order (asyncio runs what call_soon queued first  *)
(* in, first out); after that a unit moves when what it awaits completes.  *)
(* task.cancel() makes the unit's pending await raise CancelledError.      *)
(***************************************************************************)
Last(q) == q[Len(q)]

\* the adapter sets the manager is built with
ChannelSets == {<<>>, <<"telegram">>, <<"telegram", "cli">>}

NoStop == [pc |-> "idle", i |-> 0, out |-> Nothing]

\* a created unit; cancelled_at is history: where its CancelledError was raised
NewTask ==
    [pc |-> "created", msg |-> Nothing, must_cancel |-> FALSE, outcome |-> Nothing,
     cancelled_at |-> "never"]

ManInit(chs, tok) ==
    /\ channels = chs
    /\ token = tok
    /\ _dispatch_task = Nothing
    /\ ready = <<>>
    /\ start_tasks = <<>>
    /\ start_all_pc = "idle"
    /\ stop_all_pc = NoStop
    /\ sent = <<>>
    /\ stopped = <<>>
    /\ log = <<>>

\* the bot tokens a Telegram adapter is configured with
Tokens == {"", "t0k3n"}

\* the BaseChannel object registered under a name
Adapter(name) == [name |-> name]

channels_get_or_first(name) ==
    IF name \in Range(channels) THEN Adapter(name)
    ELSE IF channels # <<>> THEN Adapter(channels[1]) ELSE Nothing

\* self.channels.get(name)
channels_get(name) == IF name \in Range(channels) THEN Adapter(name) ELSE Nothing

start_order_dispatcher_last(names) == names \o <<"dispatch">>

\* start_all: create_task(self._dispatch_outbound()), then one create_task per adapter
start_order(names) == <<"dispatch">> \o names

StartAll ==
    /\ start_all_pc = "idle"
    /\ stop_all_pc.pc = "idle"
    /\ IF channels = <<>>
       THEN /\ log' = Append(log, <<"warning", "No channels enabled">>)
            /\ start_all_pc' = "returned"
            /\ UNCHANGED <<_dispatch_task, ready, start_tasks>>
       ELSE /\ _dispatch_task' = NewTask
            /\ start_tasks' = [name \in Range(channels) |-> "created"]
            /\ ready' = ready \o start_order(channels)
            /\ log' = log \o [k \in 1..Len(channels) |-> <<"info", "Starting ", channels[k]>>]
            /\ start_all_pc' = "gather"
    /\ event' = [op |-> "start_all"]
    /\ UNCHANGED <<busVars, chanVars, conVars, regVars, subVars, channels, token, stop_all_pc,
                   sent, stopped>>
    /\ UNCHANGED svcVars

\* first step of _dispatch_outbound: up to the first wait_for(consume_outbound())
DispatchStart ==
    /\ ready # <<>>
    /\ Head(ready) = "dispatch"
    /\ ready' = Tail(ready)
    /\ _dispatch_task' = [_dispatch_task EXCEPT !.pc = "consume"]
    /\ log' = Append(log, <<"info", "Outbound dispatcher started">>)
    /\ event' = [op |-> "dispatch_start"]
    /\ UNCHANGED <<busVars, chanVars, conVars, regVars, subVars, channels, token, start_tasks,
                   start_all_pc, stop_all_pc, sent, stopped>>
    /\ UNCHANGED svcVars

\* how channel.start() goes on from its first step.  TelegramChannel.start
\* returns at once when no token is configured; with a token it sets _running,
\* and its platform calls (initialize, start, get_me, start_polling) either
\* raise or lead into `while self._running`.  Any other adapter may do each.
start_outcomes(name) ==
    IF name = "telegram"
    THEN IF token = "" THEN {"returns"} ELSE {"runs", "raises"}
    ELSE {"runs", "returns", "raises"}

\* first step of _start_channel: channel.start() keeps running, returns at once
\* or raises, which _start_channel logs
StartChannel(name) ==
    /\ ready # <<>>
    /\ Head(ready) = name
    /\ ready' = Tail(ready)
    /\ \E o \in start_outcomes(name) :
          /\ start_tasks' = [start_tasks EXCEPT ![name] =
                                IF o = "runs" THEN "running" ELSE "ended"]
          /\ log' = IF o = "raises"
                    THEN Append(log, <<"error", "Failed to start channel ", name, "StartError">>)
                    ELSE log
          /\ event' = [op |-> "start_channel", channel |-> name, outcome |-> o,
                       dispatcher |-> _dispatch_task.pc]
    /\ UNCHANGED <<busVars, chanVars, conVars, regVars, subVars, channels, token, _dispatch_task,
                   start_all_pc, stop_all_pc, sent, stopped>>
    /\ UNCHANGED svcVars

while_running_ignored(name) == TRUE

\* `while self._running` is left once stop() has set _running to False
while_running_left(name) == name \in Range(stopped)

\* channel.start() returns once stop() has been invoked on the adapter
StartChannelEnds(name) ==
    /\ name \in DOMAIN start_tasks
    /\ start_tasks[name] = "running"
    /\ while_running_left(name)
    /\ start_tasks' = [start_tasks EXCEPT ![name] = "ended"]
    /\ event' = [op |-> "start_channel_ends", channel |-> name]
    /\ UNCHANGED <<busVars, chanVars, conVars, regVars, subVars, channels, token, _dispatch_task,
                   ready, start_all_pc, stop_all_pc, sent, stopped, log>>
    /\ UNCHANGED svcVars

\* await asyncio.gather(*tasks, return_exceptions=True) completes
StartAllReturns ==
    /\ start_all_pc = "gather"
    /\ \A name \in DOMAIN start_tasks : start_tasks[name] = "ended"
    /\ start_all_pc' = "returned"
    /\ event' = [op |-> "start_all_returns"]
    /\ UNCHANGED <<busVars, chanVars, conVars, regVars, subVars, channels, token, _dispatch_task,
                   ready, start_tasks, stop_all_pc, sent, stopped, log>>
    /\ UNCHANGED svcVars

Dispatching(pc) ==
    /\ _dispatch_task # Nothing
    /\ _dispatch_task.pc = pc
    /\ ~_dispatch_task.must_cancel

\* the body of the loop after wait_for returned msg: the adapter is looked up and
\* its send is called, or the message is logged as unknown and dropped
route(msg) ==
    LET channel == channels_get(msg.channel)
    IN  IF channel # Nothing
        THEN /\ sent' = Append(sent, [channel |-> channel.name, msg |-> msg,
                                      n |-> Len(conOut) + 1])
             /\ _dispatch_task' = [_dispatch_task EXCEPT !.pc = "send", !.msg = msg]
             /\ log' = log
             /\ event' = [op |-> "dispatch", msg |-> msg, sending |-> TRUE]
        ELSE /\ log' = Append(log, <<"warning", "Unknown channel: ", msg.channel>>)
             /\ event' = [op |-> "dispatch", msg |-> msg, sending |-> FALSE]
             /\ UNCHANGED <<sent, _dispatch_task>>

\* wait_for(consume_outbound()) returns a message, which is routed
DispatchConsume ==
    /\ Dispatching("consume")
    /\ consume_outbound
    /\ route(Last(conOut'))
    /\ UNCHANGED <<inbound, pubIn, conIn, pubOut, chanVars, conVars, regVars, subVars, channels, token,
                   ready, start_tasks, start_all_pc, stop_all_pc, stopped>>
    /\ UNCHANGED svcVars

\* wait_for times out on the empty queue: except asyncio.TimeoutError: continue
DispatchTimeout ==
    /\ Dispatching("consume")
    /\ outbound = <<>>
    /\ event' = [op |-> "dispatch_timeout"]
    /\ UNCHANGED <<busVars, chanVars, conVars, regVars, subVars, manVars>>
    /\ UNCHANGED svcVars

\* the unit running _dispatch_outbound, as a caller of consume_outbound
Dispatcher == "k1"

\* wait_for(self.bus.consume_outbound(), timeout=1.0) is entered: get returns the
\* oldest message at once, which is routed, or suspends on the empty queue
DispatchWait ==
    /\ Dispatching("consume")
    /\ consumers[Dispatcher].pc = "idle"
    /\ IF outbound = <<>>
       THEN /\ Suspend(Dispatcher, "outbound")
            /\ UNCHANGED <<sent, _dispatch_task, log>>
       ELSE /\ consume_outbound
            /\ route(Last(conOut'))
            /\ UNCHANGED <<inbound, pubIn, conIn, pubOut, conVars>>
    /\ UNCHANGED <<chanVars, regVars, subVars, channels, token, ready, start_tasks,
                   start_all_pc, stop_all_pc, stopped>>
    /\ UNCHANGED svcVars

\* the getter woken by a publish runs again inside the timed wait: the queue is
\* tested once more and its oldest message is returned and routed
DispatchResume ==
    /\ Dispatching("consume")
    /\ consumers[Dispatcher].pc = "woken"
    /\ IF outbound = <<>>
       THEN /\ Suspend(Dispatcher, "outbound")
            /\ UNCHANGED <<sent, _dispatch_task, log>>
       ELSE /\ consume_outbound
            /\ route(Last(conOut'))
            /\ consumers' = [consumers EXCEPT ![Dispatcher] = Idle]
            /\ UNCHANGED <<inbound, pubIn, conIn, pubOut, _getters>>
    /\ UNCHANGED <<chanVars, regVars, subVars, channels, token, ready, start_tasks,
                   start_all_pc, stop_all_pc, stopped>>
    /\ UNCHANGED svcVars

\* the second of the timed wait is over while get is suspended, or woken and not
\* yet run: get is cancelled, wait_for raises TimeoutError, and the loop
\* continues with the next wait_for
DispatchWaitExpires ==
    /\ Dispatching("consume")
    /\ consumers[Dispatcher].pc \in {"waiting", "woken"}
    /\ get_cancelled(Dispatcher)
    /\ event' = [op |-> "dispatch_timeout", woken |-> consumers[Dispatcher].pc = "woken"]
    /\ UNCHANGED <<chanVars, regVars, subVars, manVars>>
    /\ UNCHANGED svcVars

on_send_exception_propagates(e) ==
    /\ _dispatch_task' = [_dispatch_task EXCEPT !.pc = "ended", !.msg = Nothing,
                                                !.outcome = Exc(e)]
    /\ log' = log

\* except Exception as e: logger.error("Error sending to ..."), and the loop goes on
on_send_exception(e) ==
    /\ _dispatch_task' = [_dispatch_task EXCEPT !.pc = "consume", !.msg = Nothing]
    /\ log' = Append(log, <<"error", "Error sending to ", _dispatch_task.msg.channel, e>>)

\* channel.send(msg) returns or raises
SendReturns ==
    /\ Dispatching("send")
    /\ \E o \in {Ret(None), Exc("SendError")} :
          /\ IF o.kind = "raise"
             THEN on_send_exception(o.value)
             ELSE /\ _dispatch_task' = [_dispatch_task EXCEPT !.pc = "consume",
                                                              !.msg = Nothing]
                  /\ log' = log
          /\ event' = [op |-> "send_returns", out |-> o, n |-> Last(sent).n]
    /\ UNCHANGED <<busVars, chanVars, conVars, regVars, subVars, channels, token, ready, start_tasks,
                   start_all_pc, stop_all_pc, sent, stopped>>
    /\ UNCHANGED svcVars

\* the pending await of the cancelled dispatcher raises CancelledError, which
\* `except Exception` lets through: except asyncio.CancelledError: break
DispatchCancelled ==
    /\ _dispatch_task # Nothing
    /\ _dispatch_task.must_cancel
    /\ _dispatch_task.pc \in {"consume", "send"}
    /\ _dispatch_task' = [_dispatch_task EXCEPT !.pc = "ended", !.msg = Nothing,
                                                !.outcome = Ret(None),
                                                !.cancelled_at = _dispatch_task.pc]
    /\ event' = [op |-> "dispatch_cancelled"]
    /\ UNCHANGED <<busVars, chanVars, conVars, regVars, subVars, channels, token, ready, start_tasks,
                   start_all_pc, stop_all_pc, sent, stopped, log>>
    /\ UNCHANGED svcVars

\* the loop of stop_all from adapter i on: channel.stop() is called on the next
\* adapter, or the loop is over and stop_all returns
StopFrom(i) ==
    IF i <= Len(channels)
    THEN /\ stop_all_pc' = [pc |-> "stop", i |-> i, out |-> Nothing]
         /\ stopped' = Append(stopped, channels[i])
    ELSE /\ stop_all_pc' = [pc |-> "returned", i |-> i, out |-> Ret(None)]
         /\ stopped' = stopped

dispatch_not_awaited == TRUE

\* await self._dispatch_task completes
dispatch_terminated == _dispatch_task.pc = "ended"

\* stop_all up to its first await: the dispatcher is cancelled and awaited; without
\* a dispatcher the first adapter's stop() is called at once.  stop_all is called
\* by the unit that awaited start_all, so after the first steps start_all queued
StopAll ==
    /\ stop_all_pc.pc = "idle"
    /\ ready = <<>>
    /\ IF _dispatch_task # Nothing
       THEN /\ _dispatch_task' = [_dispatch_task EXCEPT !.must_cancel = TRUE]
            /\ stop_all_pc' = [pc |-> "await_dispatch", i |-> 0, out |-> Nothing]
            /\ stopped' = stopped
       ELSE /\ StopFrom(1)
            /\ UNCHANGED _dispatch_task
    /\ log' = Append(log, <<"info", "Stopping all channels...">>)
    /\ event' = [op |-> "stop_all"]
    /\ UNCHANGED <<busVars, chanVars, conVars, regVars, subVars, channels, token, ready, start_tasks,
                   start_all_pc, sent>>
    /\ UNCHANGED svcVars

StopAllResumes ==
    /\ stop_all_pc.pc = "await_dispatch"
    /\ dispatch_terminated
    /\ StopFrom(1)
    /\ event' = [op |-> "stop_all_resumes"]
    /\ UNCHANGED <<busVars, chanVars, conVars, regVars, subVars, channels, token, _dispatch_task, ready,
                   start_tasks, start_all_pc, sent, log>>
    /\ UNCHANGED svcVars

on_stop_exception_propagates(i, e) ==
    /\ stop_all_pc' = [pc |-> "returned", i |-> i, out |-> Exc(e)]
    /\ stopped' = stopped
    /\ log' = log

\* except Exception as e: logger.error("Error stopping ..."), and the loop goes on
on_stop_exception(i, e) ==
    /\ StopFrom(i + 1)
    /\ log' = Append(log, <<"error", "Error stopping ", channels[i], e>>)

\* channel.stop() returns or raises
StopReturns ==
    /\ stop_all_pc.pc = "stop"
    /\ LET i == stop_all_pc.i
       IN  \E o \in {Ret(None), Exc("StopError")} :
              /\ IF o.kind = "raise"
                 THEN on_stop_exception(i, o.value)
                 ELSE /\ StopFrom(i + 1)
                      /\ log' = Append(log, <<"info", "Stopped ", channels[i]>>)
              /\ event' = [op |-> "stop_returns", channel |-> channels[i], out |-> o]
    /\ UNCHANGED <<busVars, chanVars, conVars, regVars, subVars, channels, token, _dispatch_task, ready,
                   start_tasks, start_all_pc, sent>>
    /\ UNCHANGED svcVars

(***************************************************************************)
(* heartbeat/service.py: HeartbeatService.  Each start() creates a unit    *)
(* running _run_loop; a unit moves when its sleep or its on_heartbeat call *)
(* completes, or when the CancelledError of a cancel() is delivered.       *)
(***************************************************************************)
\* the units start() can create, in creation order
LoopOrder == <<"h1", "h2">>

Loops == Range(LoopOrder)

NoLoop == [pc |-> "uncreated", must_cancel |-> FALSE]

\* HeartbeatService.__init__; begun, ended_by and last_call are history: the
\* on_heartbeat invocations begun, how each loop ended, and the last of start()
\* and stop() that returned
HeartbeatInit(enabled, on_heartbeat) ==
    heartbeat = [enabled |-> enabled, on_heartbeat |-> on_heartbeat,
                 _running |-> FALSE, _task |-> None,
                 loops |-> [l \in Loops |-> NoLoop],
                 begun |-> 0, last_call |-> "none"]

NextLoop ==
    LoopOrder[Cardinality({l \in Loops : heartbeat.loops[l].pc # "uncreated"}) + 1]

\* start(): nothing when disabled; else _running is set and a unit is created
HeartbeatStart ==
    /\ \E l \in Loops : heartbeat.loops[l].pc = "uncreated"
    /\ IF ~heartbeat.enabled
       THEN heartbeat' = [heartbeat EXCEPT !.last_call = "start"]
       ELSE heartbeat' = [heartbeat EXCEPT !._running = TRUE,
                                           !._task = <<NextLoop>>,
                                           !.loops[NextLoop].pc = "created",
                                           !.last_call = "start"]
    /\ event' = [op |-> "heartbeat_start"]
    /\ UNCHANGED <<busVars, conVars, chanVars, regVars, subVars, manVars,
                   cli, message_tool, rag>>

\* task.cancel(): a unit that has not ended gets a CancelledError at its next step
cancel(loops, l) ==
    IF loops[l].pc = "ended" THEN loops
    ELSE [loops EXCEPT ![l].must_cancel = TRUE]

\* stop(): _running is cleared, the unit in _task is cancelled and forgotten
HeartbeatStop ==
    /\ heartbeat' = [heartbeat EXCEPT
                        !._running = FALSE,
                        !._task = None,
                        !.loops = IF heartbeat._task = None THEN @
                                  ELSE cancel(@, heartbeat._task[1]),
                        !.last_call = "stop"]
    /\ event' = [op |-> "heartbeat_stop"]
    /\ UNCHANGED <<busVars, conVars, chanVars, regVars, subVars, manVars,
                   cli, message_tool, rag>>

\* the loop is left: the condition of `while` is false, or CancelledError: break
loop_ends(l, why) ==
    /\ heartbeat' = [heartbeat EXCEPT !.loops[l] = [pc |-> "ended", must_cancel |-> FALSE]]
    /\ event' = [op |-> "heartbeat_loop", loop |-> l, ended |-> TRUE, why |-> why,
                 invoked |-> FALSE]

\* while self._running: ... await asyncio.sleep(self.interval_s)
loop_head(l, why) ==
    IF heartbeat._running
    THEN /\ heartbeat' = [heartbeat EXCEPT !.loops[l].pc = "sleep"]
         /\ event' = [op |-> "heartbeat_loop", loop |-> l, ended |-> FALSE, why |-> why,
                      invoked |-> FALSE]
    ELSE loop_ends(l, why)

on_tick_exception_breaks(l, e) == loop_ends(l, e)

\* except Exception as e: logger.error(...), in _tick around on_heartbeat and in
\* _run_loop around _tick: the loop goes on
on_tick_exception(l, e) == loop_head(l, e)

\* what _tick finds: no tasks in HEARTBEAT.md, tasks, or an exception of the
\* file system outside _read_heartbeat_file's own try
HeartbeatFiles == {"empty", "tasks", "raises"}

\* the replies of on_heartbeat, and its failure
TickOutcomes == {Ret("HEARTBEAT_OK"), Ret("done"), Exc("TickError")}

\* one step of a unit running _run_loop
RunLoopStep(l) ==
    /\ heartbeat.loops[l].pc \in {"created", "sleep", "tick"}
    /\ IF heartbeat.loops[l].must_cancel
       THEN loop_ends(l, "CancelledError")
       ELSE CASE heartbeat.loops[l].pc = "created" -> loop_head(l, "first")
              [] heartbeat.loops[l].pc = "sleep" ->
                    IF ~heartbeat._running
                    THEN loop_head(l, "not running")
                    ELSE \E file \in HeartbeatFiles :
                            IF file = "raises" THEN on_tick_exception(l, "OSError")
                            ELSE IF file = "empty" \/ ~heartbeat.on_heartbeat
                            THEN loop_head(l, "no call")
                            ELSE /\ heartbeat.begun < MaxTicks
                                 /\ heartbeat' = [heartbeat EXCEPT !.loops[l].pc = "tick",
                                                                   !.begun = @ + 1]
                                 /\ event' = [op |-> "heartbeat_loop", loop |-> l,
                                              ended |-> FALSE, why |-> "tick",
                                              invoked |-> TRUE]
              [] heartbeat.loops[l].pc = "tick" ->
                    \E o \in TickOutcomes :
                        IF o.kind = "raise" THEN on_tick_exception(l, o.value)
                        ELSE loop_head(l, "returned")
    /\ UNCHANGED <<busVars, conVars, chanVars, regVars, subVars, manVars,
                   cli, message_tool, rag>>

(***************************************************************************)
(* cli/commands.py: run_interactive.  The main loop reads an input,        *)
(* publishes it and waits for turn_done; the unit _consume_outbound takes  *)
(* every outbound message of the bus.  The reasoning loop (agent/loop.py)  *)
(* is the consumer of the inbound queue: it answers the messages in queue  *)
(* order, a subagent report with a summary addressed to the report's       *)
(* origin.                                                                 *)
(***************************************************************************)
\* --session cli:direct
cli_channel == "cli"
cli_chat_id == "direct"

\* turn_done = asyncio.Event(); turn_done.set(); turn_response = []; printed is
\* history: what the session has written to the console, turn is the number of
\* inputs published; processing is the message the reasoning loop works on
CliInit ==
    cli = [pc |-> "input", turn_done |-> TRUE, turn_response |-> <<>>, turn |-> 0,
           printed |-> <<>>, processing |-> Nothing]

\* the text entered in turn n
UserInput(n) == <<"input", n>>

\* the reasoning loop's answer to an inbound message
ReplyTo(content) == <<"reply to", content>>

\* msg.metadata.get("_progress") is true, for metadata given as pairs
is_progress(msg) ==
    \E i \in 1..Len(msg.metadata) :
        msg.metadata[i][1] = "_progress" /\ msg.metadata[i][2] = TRUE

\* the main loop from the input to `await turn_done.wait()`
CliInput ==
    /\ cli.pc = "input"
    /\ Len(pubIn) < MaxPublish
    /\ publish_inbound(InboundMessage(cli_channel, "user", cli_chat_id,
                                      UserInput(cli.turn + 1), <<>>, <<>>))
    /\ wakeup_next("inbound")
    /\ cli' = [cli EXCEPT !.pc = "waiting", !.turn_done = FALSE, !.turn_response = <<>>,
                          !.turn = @ + 1]
    /\ event' = [op |-> "cli_input", turn |-> cli.turn + 1]
    /\ UNCHANGED <<conIn, pubOut, conOut, chanVars, regVars, subVars, manVars,
                   heartbeat, message_tool, rag>>

\* turn_done.wait() returns: the first collected text is printed as the response
CliTurnEnds ==
    /\ cli.pc = "waiting"
    /\ cli.turn_done
    /\ cli' = [cli EXCEPT !.pc = "input",
                          !.printed = IF cli.turn_response # <<>>
                                      THEN Append(@, [kind |-> "response", turn |-> cli.turn,
                                                      content |-> cli.turn_response[1]])
                                      ELSE @]
    /\ event' = [op |-> "cli_turn_ends", turn |-> cli.turn]
    /\ UNCHANGED <<busVars, conVars, chanVars, regVars, subVars, manVars,
                   heartbeat, message_tool, rag>>

\* one pass of _consume_outbound's loop with a message received
CliConsume ==
    /\ consume_outbound
    /\ LET msg == Head(outbound)
       IN  /\ IF is_progress(msg)
              THEN cli' = [cli EXCEPT !.printed =
                              Append(@, [kind |-> "progress", turn |-> cli.turn,
                                         content |-> msg.content])]
              ELSE IF ~cli.turn_done
              THEN cli' = [cli EXCEPT !.turn_done = TRUE,
                                      !.turn_response = IF msg.content # <<>>
                                                        THEN Append(@, msg.content) ELSE @]
              ELSE IF msg.content # <<>>
              THEN cli' = [cli EXCEPT !.printed =
                              Append(@, [kind |-> "unsolicited", turn |-> cli.turn,
                                         content |-> msg.content])]
              ELSE cli' = cli
           /\ event' = [op |-> "cli_consume", msg |-> msg,
                        progress |-> is_progress(msg)]
    /\ UNCHANGED <<inbound, pubIn, conIn, pubOut, conVars, chanVars, regVars, subVars,
                   manVars, heartbeat, message_tool, rag>>

\* where the reasoning loop sends its answer: a subagent report names its
\* origin as "channel:chat_id" in chat_id
reply_target(msg) ==
    IF msg.channel = "system"
    THEN [channel |-> msg.chat_id[1], chat_id |-> msg.chat_id[2]]
    ELSE [channel |-> msg.channel, chat_id |-> msg.chat_id]

\* the reasoning loop takes the oldest inbound message
AgentTakes ==
    /\ cli.processing = Nothing
    /\ consume_inbound
    /\ cli' = [cli EXCEPT !.processing = Head(inbound)]
    /\ event' = [op |-> "agent_takes", msg |-> Head(inbound)]
    /\ UNCHANGED <<pubIn, pubOut, conOut, conVars, chanVars, regVars, subVars, manVars,
                   heartbeat, message_tool, rag>>

\* the reasoning loop reports progress on the message it is processing
AgentProgress ==
    /\ cli.processing # Nothing
    /\ Cardinality({i \in 1..Len(pubOut) :
                       is_progress(pubOut[i])}) < MaxProgress
    /\ LET target == reply_target(cli.processing)
       IN  publish_outbound([OutboundMessage(target.channel, target.chat_id, <<"working">>)
                                EXCEPT !.metadata = <<<<"_progress", TRUE>>>>])
    /\ wakeup_next("outbound")
    /\ event' = [op |-> "agent_progress"]
    /\ UNCHANGED <<pubIn, conIn, conOut, chanVars, regVars, subVars, manVars, svcVars>>

\* the reasoning loop publishes its answer to the message it has processed
AgentReplies ==
    /\ cli.processing # Nothing
    /\ LET target == reply_target(cli.processing)
       IN  publish_outbound(OutboundMessage(target.channel, target.chat_id,
                                            ReplyTo(cli.processing.content)))
    /\ wakeup_next("outbound")
    /\ cli' = [cli EXCEPT !.processing = Nothing]
    /\ event' = [op |-> "agent_replies", msg |-> cli.processing]
    /\ UNCHANGED <<pubIn, conIn, conOut, chanVars, regVars, subVars, manVars,
                   heartbeat, message_tool, rag>>

\* a subagent spawned from the session publishes its report
SubagentReport ==
    /\ Len(pubIn) < MaxPublish
    /\ \A i \in 1..Len(pubIn) : pubIn[i].channel # "system"
    /\ publish_inbound(InboundMessage("system", "subagent", <<cli_channel, cli_chat_id>>,
                                      <<"[Subagent '", "t", "' ", "completed successfully">>,
                                      <<>>, <<>>))
    /\ wakeup_next("inbound")
    /\ event' = [op |-> "subagent_report"]
    /\ UNCHANGED <<conIn, pubOut, conOut, chanVars, regVars, subVars, manVars, svcVars>>

(***************************************************************************)
(* agent/tools/message.py: MessageTool.  Strings that may be None or empty *)
(* are one-element or empty tuples.  execute runs up to the await of the   *)
(* send callback in one step and goes on when the callback completes.      *)
(***************************************************************************)
\* MessageTool.__init__ with these arguments; succeeded and invoked are history:
\* whether a callback call has completed since the last start_turn(), and the
\* callback calls made by the execute call in flight
MessageToolInit(send_callback, default_channel, default_chat_id) ==
    message_tool = [_send_callback |-> send_callback,
                    _default_channel |-> default_channel,
                    _default_chat_id |-> default_chat_id,
                    _sent_in_turn |-> FALSE,
                    pc |-> "idle", msg |-> Nothing, invoked |-> 0,
                    succeeded |-> FALSE]

\* the paths for which Path(m).is_file() holds
ExistingFiles == {"report.txt"}

MediaArgs == {None, <<"report.txt">>, <<"report.txt", "missing.txt">>}

\* _resolve_path(m, self._workspace, None) for a relative path
_resolve_path(m) == <<"/workspace/", m>>

is_file(path) == path[1] = "/workspace/" /\ path[2] \in ExistingFiles

\* the first path of the list that is not an existing file, or Nothing
first_missing(media_resolved) ==
    IF \A i \in 1..Len(media_resolved) : is_file(media_resolved[i])
    THEN Nothing
    ELSE media_resolved[CHOOSE i \in 1..Len(media_resolved) :
                            /\ ~is_file(media_resolved[i])
                            /\ \A j \in 1..(i - 1) : is_file(media_resolved[j])]

\* start_turn()
MessageStartTurn ==
    /\ message_tool' = [message_tool EXCEPT !._sent_in_turn = FALSE, !.succeeded = FALSE]
    /\ event' = [op |-> "start_turn"]
    /\ UNCHANGED <<busVars, conVars, chanVars, regVars, subVars, manVars,
                   heartbeat, cli, rag>>

\* execute returns without having reached the callback
error_return(text) ==
    /\ message_tool' = message_tool
    /\ event' = [op |-> "message_execute", returned |-> TRUE, out |-> text, invoked |-> 0]

\* execute from its call to an error return or to `await self._send_callback(msg)`
MessageExecute ==
    /\ message_tool.pc = "idle"
    /\ \E content \in {"hello"}, channel_arg \in {None, <<"cli">>},
          chat_id_arg \in {None, <<"direct">>}, media \in MediaArgs :
          LET channel == OrElse(channel_arg, message_tool._default_channel)
              chat_id == OrElse(chat_id_arg, message_tool._default_chat_id)
              media_raw == OrElse(media, <<>>)
              media_resolved == [i \in 1..Len(media_raw) |-> _resolve_path(media_raw[i])]
          IN  IF channel = <<>> \/ chat_id = <<>>
              THEN error_return(<<"Error: No target channel/chat specified">>)
              ELSE IF ~message_tool._send_callback
              THEN error_return(<<"Error: Message sending not configured">>)
              ELSE IF first_missing(media_resolved) # Nothing
              THEN error_return(<<"Error: File '", first_missing(media_resolved),
                                  "' does not exist. ">>)
              ELSE /\ message_tool' =
                         [message_tool EXCEPT
                             !.pc = "send", !.invoked = 1,
                             !.msg = [OutboundMessage(channel[1], chat_id[1], content)
                                         EXCEPT !.media = media_resolved]]
                   /\ event' = [op |-> "message_execute", returned |-> FALSE]
    /\ UNCHANGED <<busVars, conVars, chanVars, regVars, subVars, manVars,
                   heartbeat, cli, rag>>

media_info(media_resolved) ==
    IF media_resolved # <<>> THEN <<" with ", Len(media_resolved), " attachments">> ELSE <<>>

send_completes_flag_always(o) ==
    [message_tool EXCEPT !.pc = "idle", !.msg = Nothing, !.invoked = 0,
                         !._sent_in_turn = TRUE,
                         !.succeeded = @ \/ o.kind = "return"]

\* after `await self._send_callback(msg)`: the flag is set when the callback
\* returned, and left alone in `except Exception`
send_completes(o) ==
    [message_tool EXCEPT !.pc = "idle", !.msg = Nothing, !.invoked = 0,
                         !._sent_in_turn = IF o.kind = "return" THEN TRUE ELSE @,
                         !.succeeded = @ \/ o.kind = "return"]

\* the send callback returns or raises, and execute returns its text
MessageSendCompletes ==
    /\ message_tool.pc = "send"
    /\ \E o \in {Ret(None), Exc("SendError")} :
          /\ message_tool' = send_completes(o)
          /\ event' = [op |-> "message_execute", returned |-> TRUE,
                       invoked |-> message_tool.invoked, completed |-> o.kind = "return",
                       out |-> IF o.kind = "return"
                               THEN <<"Message sent to ", message_tool.msg.channel, ":",
                                      message_tool.msg.chat_id,
                                      media_info(message_tool.msg.media)>>
                               ELSE <<"Error sending message: ", o.value>>]
    /\ UNCHANGED <<busVars, conVars, chanVars, regVars, subVars, manVars,
                   heartbeat, cli, rag>>

(***************************************************************************)
(* agent/tools/rag.py: RAGTool._chunk_text.  A text is a sequence of       *)
(* characters; one step of the model is one pass of the while loop.        *)
(***************************************************************************)
Chars == {"a", " "}

\* the texts of up to MaxText characters
Texts == UNION {[1..n -> Chars] : n \in 0..MaxText}

\* the values RAGConfig.chunk_size and RAGConfig.chunk_overlap are given; the
\* schema declares both as int and constrains neither
ChunkSizes == 1..3
ChunkOverlaps == 0..3

\* an index of a Python slice, counted from the end when negative, and clamped
slice_index(i, n) ==
    LET k == IF i < 0 THEN i + n ELSE i
    IN  IF k < 0 THEN 0 ELSE IF k > n THEN n ELSE k

\* text[start:end]
slice(text, start, end) ==
    SubSeq(text, slice_index(start, Len(text)) + 1, slice_index(end, Len(text)))

\* str.strip()
RECURSIVE strip(_)
strip(text) ==
    IF text = <<>> THEN <<>>
    ELSE IF Head(text) = " " THEN strip(Tail(text))
    ELSE IF text[Len(text)] = " " THEN strip(SubSeq(text, 1, Len(text) - 1))
    ELSE text

\* _chunk_text is called: an empty or blank text returns [] at once, else the
\* loop is entered with start = 0; starts is history: the value of start in
\* each pass made
RagInit(text, chunk_size, chunk_overlap) ==
    rag = [text |-> text, chunk_size |-> chunk_size, chunk_overlap |-> chunk_overlap,
           pc |-> "called", start |-> 0, chunks |-> <<>>, starts |-> <<>>]

ChunkTextCall ==
    /\ rag # Nothing
    /\ rag.pc = "called"
    /\ IF rag.text = <<>> \/ strip(rag.text) = <<>>
       THEN rag' = [rag EXCEPT !.pc = "returned"]
       ELSE rag' = [rag EXCEPT !.pc = "loop"]
    /\ event' = [op |-> "_chunk_text"]
    /\ UNCHANGED <<busVars, conVars, chanVars, regVars, subVars, manVars,
                   heartbeat, cli, message_tool>>

\* one evaluation of `while start < len(text)` and, when it holds, of the body
ChunkTextPass ==
    /\ rag # Nothing
    /\ rag.pc = "loop"
    /\ Len(rag.starts) < MaxPasses
    /\ IF ~(rag.start < Len(rag.text))
       THEN rag' = [rag EXCEPT !.pc = "returned"]
       ELSE LET end == rag.start + rag.chunk_size
                chunk == strip(slice(rag.text, rag.start, end))
                chunks == IF chunk # <<>> THEN Append(rag.chunks, chunk) ELSE rag.chunks
            IN  IF end >= Len(rag.text)
                THEN rag' = [rag EXCEPT !.pc = "returned", !.chunks = chunks,
                                        !.starts = Append(@, rag.start)]
                ELSE rag' = [rag EXCEPT !.chunks = chunks,
                                        !.starts = Append(@, rag.start),
                                        !.start = @ + rag.chunk_size - rag.chunk_overlap]
    /\ event' = [op |-> "_chunk_text_pass"]
    /\ UNCHANGED <<busVars, conVars, chanVars, regVars, subVars, manVars,
                   heartbeat, cli, message_tool>>

\* the services outside a specification's scope, as constructed
ServicesInit ==
    /\ HeartbeatInit(TRUE, TRUE)
    /\ CliInit
    /\ MessageToolInit(FALSE, <<>>, <<>>)
    /\ rag = Nothing

(***************************************************************************)
(* Specifications.  Spec: the supervisor with two subagents that run       *)
(* concurrently and whose ids differ; DrawSpec: the same with every        *)
(* outcome of the id draws; CancelSpec: Spec with cancellation of the      *)
(* background units.  LoopSpec: one subagent, against each of the provider *)
(* mock's batches.  ManSpec: the channel manager from start_all to         *)
(* stop_all; AdapterSpec: the same with an idle outbound queue, under      *)
(* fairness of the adapters' start loops.  BusSpec, ChanSpec and RegSpec   *)
(* drive the bus, the channel forward operation and the long-lived         *)
(* registry by themselves; ConSpec drives the bus with suspending          *)
(* consumers, TgSpec the Telegram handlers.  AnnounceSpec: one subagent    *)
(* and the consumers of its announcement; WaitSpec: the dispatcher with    *)
(* its timed wait, under fairness of its steps; GigaSpec: one subagent     *)
(* against GigaChatProvider's parsed responses; HbSpec, CliSpec, MsgSpec   *)
(* and RagSpec: the heartbeat service, the interactive session, the        *)
(* message tool and a call of _chunk_text.                                 *)
(***************************************************************************)
Init ==
    /\ BusInit
    /\ allow_from = {}
    /\ TelegramInit
    /\ RegInit
    /\ ServicesInit
    /\ ManInit(<<>>, "")
    /\ \E draws \in DistinctDraws(Len(UnitOrder)) : SubInit(draws, Mock({<<Call("file", "ok")>>}, {<<"answer">>}))
    /\ event = [op |-> "init"]

Next ==
    \/ Spawn
    \/ \E t \in Units : Start(t)
    \/ \E t \in Units : ChatReturn(t)
    \/ \E t \in Units : ToolStep(t)
    \/ \E t \in Units : Reap(t)

Spec == Init /\ [][Next]_vars

\* every await of a background task completes, and the event loop runs every
\* callback it has scheduled
Fairness ==
    \A t \in Units :
        /\ WF_vars(Start(t))
        /\ WF_vars(ChatReturn(t))
        /\ WF_vars(ToolStep(t))
        /\ WF_vars(Reap(t))

FairSpec == Spec /\ Fairness

\* the supervisor with every outcome of the two id draws, equal draws included
DrawInit ==
    /\ BusInit
    /\ allow_from = {}
    /\ TelegramInit
    /\ RegInit
    /\ ServicesInit
    /\ ManInit(<<>>, "")
    /\ \E draws \in Draws(Len(UnitOrder)) : SubInit(draws, Mock({<<Call("file", "ok")>>}, {<<"answer">>}))
    /\ event = [op |-> "init"]

DrawSpec == DrawInit /\ [][Next]_vars

LoopInit ==
    /\ BusInit
    /\ allow_from = {}
    /\ TelegramInit
    /\ RegInit
    /\ ServicesInit
    /\ ManInit(<<>>, "")
    /\ \E draws \in Draws(1), batch \in Batches :
          SubInit(draws, Mock({batch}, {<<"answer">>, None}))
    /\ event = [op |-> "init"]

LoopSpec == LoopInit /\ [][Next]_vars

\* one subagent whose announcement is awaited by the consumers of the bus
AnnounceInit ==
    /\ BusInit
    /\ allow_from = {}
    /\ TelegramInit
    /\ RegInit
    /\ ServicesInit
    /\ ManInit(<<>>, "")
    /\ \E draws \in Draws(1) : SubInit(draws, Mock({}, {<<"answer">>}))
    /\ event = [op |-> "init"]

AnnounceNext ==
    \/ Spawn
    \/ \E t \in Units : Start(t)
    \/ \E t \in Units : ChatReturn(t)
    \/ \E t \in Units : Reap(t)
    \/ \E k \in Consumers : ConsumeCall(k)
    \/ \E k \in Consumers : ConsumeResume(k)

AnnounceSpec == AnnounceInit /\ [][AnnounceNext]_vars

CancelNext ==
    \/ Next
    \/ \E t \in Units : Cancel(t)

CancelSpec == Init /\ [][CancelNext]_vars

BusSpecInit ==
    /\ BusInit
    /\ allow_from = {}
    /\ TelegramInit
    /\ RegInit
    /\ ServicesInit
    /\ ManInit(<<>>, "")
    /\ SubInit(<<>>, Mock({}, {}))
    /\ event = [op |-> "init"]

BusNext ==
    \/ PublishInbound
    \/ ConsumeInbound
    \/ PublishOutbound
    \/ ConsumeOutbound

BusSpec == BusSpecInit /\ [][BusNext]_vars

ConNext ==
    \/ PublishInbound
    \/ PublishOutbound
    \/ \E k \in Consumers : ConsumeCall(k)
    \/ \E k \in Consumers : ConsumeResume(k)
    \/ \E k \in Consumers : ConsumeCancel(k)

ConSpec == BusSpecInit /\ [][ConNext]_vars

ChanSpecInit ==
    /\ BusInit
    /\ ChanInit
    /\ RegInit
    /\ ServicesInit
    /\ ManInit(<<>>, "")
    /\ SubInit(<<>>, Mock({}, {}))
    /\ event = [op |-> "init"]

ChanNext ==
    \/ HandleMessage
    \/ ForwardCommand

ChanSpec == ChanSpecInit /\ [][ChanNext]_vars

TgNext ==
    \/ OnStart
    \/ OnHelp
    \/ OnMessage

TgSpec == ChanSpecInit /\ [][TgNext]_vars

RegSpecInit ==
    /\ BusInit
    /\ allow_from = {}
    /\ TelegramInit
    /\ RegInit
    /\ ServicesInit
    /\ ManInit(<<>>, "")
    /\ SubInit(<<>>, Mock({}, {}))
    /\ event = [op |-> "init"]

RegNext ==
    \/ Register
    \/ Unregister
    \/ Execute

RegSpec == RegSpecInit /\ [][RegNext]_vars

ManSpecInit ==
    /\ BusInit
    /\ allow_from = {}
    /\ TelegramInit
    /\ RegInit
    /\ ServicesInit
    /\ SubInit(<<>>, Mock({}, {}))
    /\ \E chs \in ChannelSets, tok \in Tokens : ManInit(chs, tok)
    /\ event = [op |-> "init"]

ManNext ==
    \/ PublishOutbound
    \/ StartAll
    \/ DispatchStart
    \/ \E name \in Range(channels) : StartChannel(name)
    \/ \E name \in Range(channels) : StartChannelEnds(name)
    \/ StartAllReturns
    \/ DispatchConsume
    \/ DispatchTimeout
    \/ SendReturns
    \/ DispatchCancelled
    \/ StopAll
    \/ StopAllResumes
    \/ StopReturns

ManSpec == ManSpecInit /\ [][ManNext]_vars

\* the channel manager with nothing published to the outbound queue
AdapterNext ==
    \/ StartAll
    \/ DispatchStart
    \/ \E name \in Range(channels) : StartChannel(name)
    \/ \E name \in Range(channels) : StartChannelEnds(name)
    \/ StartAllReturns
    \/ DispatchTimeout
    \/ DispatchCancelled
    \/ StopAll
    \/ StopAllResumes
    \/ StopReturns

\* asyncio.sleep(1) in TelegramChannel.start completes and the loop condition
\* is evaluated again
AdapterFairness == \A name \in {"telegram", "cli"} : WF_vars(StartChannelEnds(name))

AdapterSpec == ManSpecInit /\ [][AdapterNext]_vars /\ AdapterFairness

\* the dispatcher and its timed wait on the outbound queue, with one adapter or
\* two registered
WaitInit ==
    /\ BusInit
    /\ allow_from = {}
    /\ TelegramInit
    /\ RegInit
    /\ ServicesInit
    /\ SubInit(<<>>, Mock({}, {}))
    /\ \E chs \in ChannelSets \ {<<>>} : ManInit(chs, "t0k3n")
    /\ event = [op |-> "init"]

WaitNext ==
    \/ PublishOutbound
    \/ StartAll
    \/ DispatchStart
    \/ DispatchWait
    \/ DispatchResume
    \/ DispatchWaitExpires
    \/ SendReturns

\* the event loop runs every unit that is ready, and every send returns or raises
WaitFairness ==
    /\ WF_vars(DispatchStart)
    /\ WF_vars(DispatchWait)
    /\ WF_vars(DispatchResume)
    /\ WF_vars(SendReturns)

WaitSpec == WaitInit /\ [][WaitNext]_vars /\ WaitFairness

\* the heartbeat service, enabled or disabled, with or without a callback
HbInit ==
    /\ BusInit
    /\ allow_from = {}
    /\ TelegramInit
    /\ RegInit
    /\ ManInit(<<>>, "")
    /\ SubInit(<<>>, Mock({}, {}))
    /\ \E enabled \in BOOLEAN, on_heartbeat \in BOOLEAN : HeartbeatInit(enabled, on_heartbeat)
    /\ CliInit
    /\ MessageToolInit(FALSE, <<>>, <<>>)
    /\ rag = Nothing
    /\ event = [op |-> "init"]

HbNext ==
    \/ HeartbeatStart
    \/ HeartbeatStop
    \/ \E l \in Loops : RunLoopStep(l)

HbSpec == HbInit /\ [][HbNext]_vars

\* an interactive CLI session over the bus, with the reasoning loop and one
\* subagent report
CliNext ==
    \/ CliInput
    \/ CliTurnEnds
    \/ CliConsume
    \/ AgentTakes
    \/ AgentProgress
    \/ AgentReplies
    \/ SubagentReport

CliSpec == BusSpecInit /\ [][CliNext]_vars

\* a message tool with or without a send callback and a default target
MsgInit ==
    /\ BusInit
    /\ allow_from = {}
    /\ TelegramInit
    /\ RegInit
    /\ ManInit(<<>>, "")
    /\ SubInit(<<>>, Mock({}, {}))
    /\ HeartbeatInit(TRUE, TRUE)
    /\ CliInit
    /\ \E send_callback \in BOOLEAN, default_channel \in {<<>>, <<"telegram">>},
          default_chat_id \in {<<>>, <<"c1">>} :
          MessageToolInit(send_callback, default_channel, default_chat_id)
    /\ rag = Nothing
    /\ event = [op |-> "init"]

MsgNext ==
    \/ MessageStartTurn
    \/ MessageExecute
    \/ MessageSendCompletes

MsgSpec == MsgInit /\ [][MsgNext]_vars

\* one subagent whose provider is GigaChatProvider: every response is a parsed
\* reply, with one function call at most
GigaInit ==
    /\ BusInit
    /\ allow_from = {}
    /\ TelegramInit
    /\ RegInit
    /\ ServicesInit
    /\ ManInit(<<>>, "")
    /\ \E draws \in Draws(1), function_call \in FunctionCalls :
          SubInit(draws, Mock({_parse_response(function_call)}, {<<"answer">>}))
    /\ event = [op |-> "init"]

GigaSpec == GigaInit /\ [][Next]_vars

\* one call of _chunk_text, for every text and every configured pair
RagSpecInit ==
    /\ BusInit
    /\ allow_from = {}
    /\ TelegramInit
    /\ RegInit
    /\ ManInit(<<>>, "")
    /\ SubInit(<<>>, Mock({}, {}))
    /\ HeartbeatInit(TRUE, TRUE)
    /\ CliInit
    /\ MessageToolInit(FALSE, <<>>, <<>>)
    /\ \E text \in Texts, chunk_size \in ChunkSizes, chunk_overlap \in ChunkOverlaps :
          RagInit(text, chunk_size, chunk_overlap)
    /\ event = [op |-> "init"]

RagNext ==
    \/ ChunkTextCall
    \/ ChunkTextPass

\* the call runs: a pass of the loop that can be made is made
RagFairness == WF_vars(ChunkTextCall) /\ WF_vars(ChunkTextPass)

RagSpec == RagSpecInit /\ [][RagNext]_vars /\ RagFairness

(***************************************************************************)
(* Claims                                                                  *)
(***************************************************************************)

\* C1: the messages consume_inbound has returned so far, followed by the messages
\* still queued, are exactly the messages passed to publish_inbound, unmodified
\* and in publish order; likewise for publish_outbound / consume_outbound.
C1_Fifo ==
    /\ conIn \o inbound = pubIn
    /\ conOut \o outbound = pubOut

C1_Witness ==
    /\ Len(conIn) >= 2
    /\ conIn[1] # conIn[2]
    /\ inbound # <<>>
    /\ Len(conOut) >= 2
    /\ conOut[1] # conOut[2]

\* the forward operation was invoked by the last step, with this sender id
Forwarded(e) ==
    \/ e.op = "_handle_message"
    \/ e.op = "_forward_command" /\ e.forwarded

\* C4: every message a channel adapter's forward operation has published comes
\* from a sender for whom is_allowed is true, and a forward for a sender who is
\* not allowed publishes nothing and leaves the inbound queue as it was.
C4_AccessDenied ==
    /\ [](\A i \in 1..Len(pubIn) : is_allowed(pubIn[i].sender_id))
    /\ [][(Forwarded(event') /\ ~is_allowed(event'.sender_id))
             => (inbound' = inbound /\ pubIn' = pubIn)]_vars

C4_Witness ==
    /\ Forwarded(event)
    /\ allow_from # {}
    /\ ~is_allowed(event.sender_id)
    /\ inbound # <<>>

\* the tool the last ToolRegistry.execute call looked up passed / failed validation
ValidatedOk(e) ==
    /\ e.op = "execute"
    /\ e.registered
    /\ validate_params(_tools[e.name], e.params) = Ret(<<>>)

ValidatedBad(e) ==
    /\ e.op = "execute"
    /\ e.registered
    /\ validate_params(_tools[e.name], e.params).kind = "return"
    /\ validate_params(_tools[e.name], e.params).value # <<>>

\* C5: a ToolRegistry.execute call whose arguments pass validate_params invokes the
\* tool's execute exactly once, with those arguments; one whose arguments fail
\* validation invokes it zero times and returns the 'Invalid parameters' text.
C5_ValidateFirst ==
    /\ ValidatedOk(event) =>
          event.invoked = <<[tool |-> _tools[event.name], params |-> event.params]>>
    /\ ValidatedBad(event) =>
          /\ event.invoked = <<>>
          /\ event.out.kind = "return"
          /\ event.out.value[1] = "Error: Invalid parameters for tool '"
          /\ event.out.value[2] = event.name

C5_Witness ==
    /\ ValidatedBad(event)
    /\ execCalls = 1

\* C6: ToolRegistry.execute for a name that is not registered returns the
\* 'Tool ... not found' text, does not raise, invokes no tool and leaves the
\* registry as it was.
C6_UnknownTool ==
    [][(event'.op = "execute" /\ ~has(_tools, event'.name))
          => /\ event'.out = Ret(<<"Error: Tool '", event'.name, "' not found">>)
             /\ event'.invoked = <<>>
             /\ execCalls' = execCalls
             /\ _tools' = _tools]_vars

C6_Witness ==
    /\ event.op = "execute"
    /\ ~event.registered
    /\ DOMAIN _tools # {}

\* validate_params or execute of the tool the last call looked up raised
ToolRaised(e) ==
    /\ e.op = "execute"
    /\ e.registered
    /\ \/ validate_params(_tools[e.name], e.params).kind = "raise"
       \/ /\ ValidatedOk(e)
          /\ tool_execute(_tools[e.name], e.params).kind = "raise"

\* C7: ToolRegistry.execute never raises and invokes the tool's execute at most
\* once; when the tool's validate_params or execute raises it returns the
\* 'Error executing' text.
C7_NeverRaises ==
    /\ event.op = "execute" =>
          /\ event.out.kind = "return"
          /\ Len(event.invoked) <= 1
    /\ ToolRaised(event) =>
          /\ event.out.value[1] = "Error executing "
          /\ event.out.value[2] = event.name

C7_Witness ==
    /\ ToolRaised(event)
    /\ event.params = "boom"
    /\ Len(event.invoked) = 1

\* the ids of the requests recorded in the assistant entries of a conversation, in
\* order, and its tool-result entries, in order
RECURSIVE RequestIds(_)
RequestIds(messages) ==
    IF messages = <<>> THEN <<>>
    ELSE LET m == Head(messages)
         IN  (IF m.role = "assistant"
              THEN [k \in 1..Len(m.tool_calls) |-> m.tool_calls[k].id]
              ELSE <<>>) \o RequestIds(Tail(messages))

IsToolEntry(m) == m.role = "tool"

ToolEntries(messages) == SelectSeq(messages, IsToolEntry)

Running(t) == sub[t].pc \in {"chat", "tool"}

\* C3: a subagent's loop never makes more than max_iterations (15) provider calls,
\* and a run that ends after a round of tool calls, without a final reply, has made
\* exactly 15 provider calls and announces the fallback text.
C3_RoundLimit ==
    /\ \A t \in Units : sub[t].chats <= max_iterations
    /\ (event.op = "tool" /\ event.finished) =>
          /\ event.chats = max_iterations
          /\ event.status = "ok"
          /\ event.result = FallbackResult
          /\ Len(announced[event.unit]) = 1
          /\ announced[event.unit][1].content[9] = FallbackResult
    /\ \A t \in Units :
          (event.op = "tool" /\ event.unit = t /\ sub[t].pc = "chat") =>
              sub[t].chats = sub[t].iteration

C3_Witness ==
    /\ event.op = "tool"
    /\ event.finished
    /\ event.chats = max_iterations
    /\ provider.batches = {<<Call("file", "ok")>>}

\* C8: in a subagent's conversation every tool-result entry carries the id of a
\* request recorded in an earlier assistant entry, and there are never more
\* tool-result entries than recorded requests.
C8_NoOrphanResults ==
    \A t \in Units :
        LET messages == sub[t].messages
        IN  /\ \A i \in 1..Len(messages) :
                  messages[i].role = "tool" =>
                      \E j \in 1..(i - 1) :
                          /\ messages[j].role = "assistant"
                          /\ \E k \in 1..Len(messages[j].tool_calls) :
                                messages[j].tool_calls[k].id = messages[i].tool_call_id
            /\ Len(ToolEntries(messages)) <= Len(RequestIds(messages))

C8_Witness ==
    \E t \in Units :
        /\ sub[t].pc = "tool"
        /\ sub[t].iteration >= 2
        /\ Len(sub[t].pending) = 2
        /\ Len(ToolEntries(sub[t].messages)) >= 4

\* C9: in a subagent's conversation the tool-result entries answer the recorded
\* requests in request order, one registry call per request, each carrying the
\* request's id and the string the registry returned for it; while a provider
\* call is in flight every recorded request has its result, and while requests
\* of a response are pending they are exactly the unanswered ones, in order.
C9_ResultsInOrder ==
    \A t \in Units :
        LET messages == sub[t].messages
            requests == RequestIds(messages)
            results == ToolEntries(messages)
            calls == sub[t].invocations
        IN  Running(t) =>
              /\ Len(results) <= Len(requests)
              /\ \A i \in 1..Len(results) : results[i].tool_call_id = requests[i]
              /\ Len(calls) = Len(results)
              /\ \A i \in 1..Len(results) :
                    /\ calls[i].id = results[i].tool_call_id
                    /\ calls[i].out = Ret(results[i].content)
              /\ sub[t].pc = "chat" => Len(results) = Len(requests)
              /\ sub[t].pc = "tool" =>
                    /\ sub[t].pending # <<>>
                    /\ [k \in 1..Len(sub[t].pending) |-> sub[t].pending[k].id]
                          = SubSeq(requests, Len(results) + 1, Len(requests))
              /\ \A j \in 1..Len(messages) :
                    messages[j].role = "assistant" =>
                        \A i \in 1..Len(messages[j].tool_calls) :
                            IF j + i <= Len(messages)
                            THEN /\ messages[j + i].role = "tool"
                                 /\ messages[j + i].tool_call_id
                                        = messages[j].tool_calls[i].id
                                 /\ messages[j + i].name
                                        = messages[j].tool_calls[i].function.name
                            ELSE sub[t].pc = "tool"

C9_Witness ==
    \E t \in Units :
        /\ sub[t].pc = "tool"
        /\ sub[t].iteration = 2
        /\ Len(sub[t].pending) = 1
        /\ Len(sub[t].invocations) = 5
        /\ sub[t].invocations[4].out.value[1] = "Error: Tool '"

Spawned(t) == sub[t].pc # "unspawned"

\* the message is addressed to the origin recorded for t by spawn
AddressedToOrigin(msg, t) ==
    /\ msg.channel = "system"
    /\ msg.sender_id = "subagent"
    /\ msg.chat_id = sub[t].origin.channel \o <<":">> \o sub[t].origin.chat_id

RECURSIVE SumAnnounced(_)
SumAnnounced(ts) ==
    IF ts = {} THEN 0
    ELSE LET t == CHOOSE x \in ts : TRUE
         IN  Len(announced[t]) + SumAnnounced(ts \ {t})

Unfinished(t) == sub[t].pc \in {"scheduled", "chat", "tool", "done"}

\* C11: get_running_count() equals the number of spawned subagents whose
\* background unit has not yet finished and been reaped, every such unit has its
\* entry in _running_tasks, and a unit's entry leaves the map only in the step
\* of its own done callback.
C11_RunningCount ==
    /\ [](get_running_count = Cardinality({t \in Units : Unfinished(t)}))
    /\ [](\A t \in Units : Unfinished(t) => HasEntry(t))
    /\ [][\A t \in Units :
            (HasEntry(t) /\ ~HasEntry(t)') => (event'.op = "reap" /\ event'.unit = t)]_vars

\* C12: when spawn returns its status text the new unit is in _running_tasks
\* under the drawn id and its run has not taken a step (no provider call, no
\* tool call, no announcement); whatever the run does later, spawn has returned,
\* and a run that raised ends its unit without an exception.
C12_SpawnReturnsFirst ==
    /\ event.op = "spawn" =>
          /\ event.out.kind = "return"
          /\ event.out.value[4] = event.task_id
          /\ event.task_id \in DOMAIN _running_tasks
          /\ _running_tasks[event.task_id] = event.unit
          /\ sub[event.unit].pc = "scheduled"
          /\ sub[event.unit].chats = 0
          /\ sub[event.unit].invocations = <<>>
          /\ announced[event.unit] = <<>>
    /\ \A t \in Units : sub[t].failed => sub[t].outcome = Ret(None)

C12_Witness ==
    /\ event.op = "spawn"
    /\ event.unit = "u2"
    /\ sub["u1"].failed
    /\ sub["u1"].pc = "done"

\* some line of the manager's log starts with these two pieces
Logged(level, text) == \E k \in 1..Len(log) : log[k][1] = level /\ log[k][2] = text

\* C13: when an adapter's send raises, the dispatcher logs the error and stays in
\* its loop, its unit not ended; with a message queued it can consume it, and
\* every consumed message for a registered adapter is passed to send.
C13_SendFailureContained ==
    /\ (event.op = "send_returns" /\ event.out.kind = "raise") =>
          /\ _dispatch_task.pc = "consume"
          /\ _dispatch_task.outcome = Nothing
          /\ Last(log) = <<"error", "Error sending to ", Last(sent).channel,
                           event.out.value>>
          /\ (outbound # <<>>) => ENABLED DispatchConsume
    /\ (_dispatch_task # Nothing /\ _dispatch_task.pc = "ended") =>
          _dispatch_task.outcome = Ret(None)
    /\ (Logged("error", "Error sending to ") /\ Len(conOut) >= 2
          /\ Last(conOut).channel \in Range(channels)) =>
              Last(sent).msg = Last(conOut) /\ Last(sent).n = Len(conOut)

C13_Witness ==
    /\ Logged("error", "Error sending to ")
    /\ Len(sent) = 2
    /\ _dispatch_task.pc = "send"
    /\ sent[1].msg # sent[2].msg

\* the send calls made for the i-th consumed message
SendsOf(i) == {k \in 1..Len(sent) : sent[k].n = i}

DispatcherOps == {"dispatch_start", "dispatch", "dispatch_timeout", "send_returns",
                  "dispatch_cancelled"}

\* C14: every published outbound message is either still queued or was consumed
\* once; a consumed message whose channel is registered has exactly one send call,
\* on that adapter and with that message, any other has none and is logged as
\* unknown; no step of the dispatcher puts a message on the outbound queue.
C14_DispatchedOnce ==
    /\ [](conOut \o outbound = pubOut)
    /\ [](\A i \in 1..Len(conOut) :
            IF conOut[i].channel \in Range(channels)
            THEN \E k \in 1..Len(sent) :
                    /\ SendsOf(i) = {k}
                    /\ sent[k].msg = conOut[i]
                    /\ sent[k].channel = conOut[i].channel
            ELSE /\ SendsOf(i) = {}
                 /\ Logged("warning", "Unknown channel: "))
    /\ [](\A k \in 1..Len(sent) : sent[k].n \in 1..Len(conOut))
    /\ [][event'.op \in DispatcherOps =>
            (pubOut' = pubOut /\ Len(outbound') <= Len(outbound))]_vars

C14_Witness ==
    /\ Len(conOut) = 3
    /\ channels = <<"telegram">>
    /\ conOut[1].channel = "cli"
    /\ conOut[2].channel = "telegram"
    /\ Len(sent) = 2

\* C15: while stop_all has called an adapter's stop(), a dispatcher that was
\* started has been cancelled and has ended, so none of its sends is in progress.
C15_DispatcherStoppedFirst ==
    (stopped # <<>> /\ _dispatch_task # Nothing) =>
        /\ _dispatch_task.must_cancel
        /\ _dispatch_task.pc = "ended"
        /\ _dispatch_task.cancelled_at \in {"consume", "send"}
        /\ _dispatch_task.msg = Nothing

C15_Witness ==
    /\ stop_all_pc.pc = "stop"
    /\ _dispatch_task # Nothing
    /\ _dispatch_task.cancelled_at = "send"

\* C16: stop_all calls stop() once on every registered adapter, in order, also
\* after a stop() that raised; it logs each failure and returns without raising.
C16_StopAllTolerant ==
    /\ stop_all_pc.pc = "returned" =>
          /\ stopped = channels
          /\ stop_all_pc.out = Ret(None)
    /\ stop_all_pc.pc = "stop" => stopped = SubSeq(channels, 1, stop_all_pc.i)
    /\ (event.op = "stop_returns" /\ event.out.kind = "raise") =>
          Last(log) = <<"error", "Error stopping ", event.channel, event.out.value>>

C16_Witness ==
    /\ stop_all_pc.pc = "returned"
    /\ Len(channels) = 2
    /\ \E k \in 1..Len(log) : log[k] = <<"error", "Error stopping ", "telegram", "StopError">>
    /\ Last(log) = <<"info", "Stopped ", "cli">>

DispatcherAlive ==
    /\ _dispatch_task # Nothing
    /\ _dispatch_task.pc \in {"created", "consume", "send"}

\* C17 as stated: once start_all has been invoked, and until stop_all is, the
\* dispatcher exists and is in its loop, whatever adapters are registered; and an
\* adapter's start() runs only after the dispatcher's first step.
C17_StartAllAlways ==
    /\ (start_all_pc # "idle" /\ stop_all_pc.pc = "idle") => DispatcherAlive
    /\ event.op = "start_channel" => event.dispatcher # "created"

\* C17, amended: the above with at least one adapter registered, every adapter's
\* start() then running whether or not another's has returned; with none
\* registered start_all logs a warning and returns without a dispatcher.
C17_StartAllNonEmpty ==
    /\ (start_all_pc # "idle" /\ stop_all_pc.pc = "idle") =>
          IF channels = <<>>
          THEN /\ _dispatch_task = Nothing
               /\ start_all_pc = "returned"
               /\ Logged("warning", "No channels enabled")
          ELSE /\ DispatcherAlive
               /\ DOMAIN start_tasks = Range(channels)
               /\ (_dispatch_task.pc = "consume" /\ outbound # <<>>) =>
                     ENABLED DispatchConsume
               /\ ready = <<>> => \A name \in Range(channels) :
                                     start_tasks[name] # "created"
    /\ event.op = "start_channel" => event.dispatcher # "created"

C17_Witness ==
    /\ Len(channels) = 2
    /\ start_all_pc = "gather"
    /\ stop_all_pc.pc = "idle"
    /\ start_tasks["telegram"] = "running"
    /\ start_tasks["cli"] = "ended"
    /\ Len(conOut) >= 1
    /\ _dispatch_task.pc = "consume"

\* the request names no tool of the subagent's registry, or its arguments fail
\* validation, or validate_params or execute of its tool raises
FailingCall(tool_call) ==
    \/ ~has(SubagentTools, tool_call.name)
    \/ /\ has(SubagentTools, tool_call.name)
       /\ LET tool == SubagentTools[tool_call.name]
              errors == validate_params(tool, tool_call.arguments)
          IN  \/ errors.kind = "raise"
              \/ errors.value # <<>>
              \/ tool_execute(tool, tool_call.arguments).kind = "raise"

ErrorPrefixes == {"Error: Tool '", "Error: Invalid parameters for tool '", "Error executing "}

\* C18: a step of a subagent's loop that runs a failing tool call appends the
\* error text as the tool-result entry of that request and does not end the run:
\* the next request of the response is run, or, after the last one, another
\* provider call is issued with the entry in the conversation; only in round 15
\* the run ends after the last request, with the fallback text and status ok.
C18_ToolFailureContinues ==
    [][\A t \in Units :
          (sub[t].pc = "tool" /\ event'.op = "tool" /\ event'.unit = t
              /\ FailingCall(Head(sub[t].pending))) =>
             LET tool_call == Head(sub[t].pending)
                 last_of_response == Len(sub[t].pending) = 1
                 last_round == sub[t].iteration = max_iterations
                 entry == Last(sub'[t].messages)
             IN  IF last_of_response /\ last_round
                 THEN /\ event'.finished
                      /\ event'.status = "ok"
                      /\ event'.result = FallbackResult
                 ELSE /\ ~event'.finished
                      /\ Len(sub'[t].messages) = Len(sub[t].messages) + 1
                      /\ entry.role = "tool"
                      /\ entry.tool_call_id = tool_call.id
                      /\ entry.name = tool_call.name
                      /\ entry.content[1] \in ErrorPrefixes
                      /\ IF last_of_response
                         THEN /\ sub'[t].pc = "chat"
                              /\ sub'[t].chats = sub[t].chats + 1
                         ELSE /\ sub'[t].pc = "tool"
                              /\ sub'[t].pending = Tail(sub[t].pending)]_vars

C18_Witness ==
    \E t \in Units :
        /\ sub[t].pc = "chat"
        /\ sub[t].iteration = 3
        /\ \A prefix \in ErrorPrefixes :
              \E i \in 1..Len(sub[t].messages) :
                  /\ sub[t].messages[i].role = "tool"
                  /\ sub[t].messages[i].content[1] = prefix

ErrorReplies == {<<"Error: ", "ProviderError">>, <<"Error calling GigaChat: ", "APIError">>}

\* C19: the step in which a subagent's provider call fails ends the run: the
\* error text is its result, announced once, the provider was called once per
\* round up to then, and a run that has ended makes no further step.
C19_NoRetry ==
    /\ [](event.op = "chat_failed" =>
            /\ event.finished
            /\ event.result \in ErrorReplies
            /\ event.chats = event.iteration
            /\ sub[event.unit].pc = "done"
            /\ Len(announced[event.unit]) = 1
            /\ announced[event.unit][1].content[9] = event.result)
    /\ [][\A t \in Units : sub[t].pc \in {"done", "reaped"} =>
              /\ sub'[t].pc \in {"done", "reaped"}
              /\ sub'[t].chats = 0
              /\ announced'[t] = announced[t]]_vars

C19_Witness ==
    /\ event.op = "chat_failed"
    /\ event.result = <<"Error calling GigaChat: ", "APIError">>
    /\ event.status = "ok"
    /\ event.chats = 2
    /\ provider.batches = {<<Call("web", "boom"), Call("file", "ok")>>}

\* C20: a subagent's run leaves the outbound queue untouched and consumes
\* nothing; the messages on the inbound side are exactly the announcements, one
\* per ended run; its registry holds file, exec and web only, so that a request
\* for another tool (message) invokes none.
C20_SubagentIsolated ==
    /\ tool_names(SubagentTools) = {"file", "exec", "web"}
    /\ outbound = <<>> /\ pubOut = <<>> /\ conOut = <<>> /\ conIn = <<>>
    /\ Len(pubIn) = SumAnnounced(Units)
    /\ \A i \in 1..Len(pubIn) : \E t \in Units : announced[t] = <<pubIn[i]>>
    /\ \A t \in Units : sub[t].pc \in {"scheduled", "chat", "tool"} => announced[t] = <<>>
    /\ \A t \in Units : \A i \in 1..Len(sub[t].invocations) :
          \A k \in 1..Len(sub[t].invocations[i].invoked) :
              sub[t].invocations[i].invoked[k].tool.name \in {"file", "exec", "web"}
    /\ \A t \in Units : \A i \in 1..Len(sub[t].messages) :
          (sub[t].messages[i].role = "tool" /\ sub[t].messages[i].name = "message") =>
              sub[t].messages[i].content = <<"Error: Tool '", "message", "' not found">>

C20_Witness ==
    \E t \in Units :
        /\ sub[t].pc = "chat"
        /\ sub[t].iteration = 2
        /\ Len(sub[t].invocations) = 3
        /\ sub[t].messages[4].name = "message"
        /\ sub[t].invocations[1].invoked = <<>>
        /\ Len(sub[t].invocations[2].invoked) + Len(sub[t].invocations[3].invoked) = 0

\* C21: a subagent's run never invokes spawn.  The registry it executes its
\* requests against holds no spawn tool, a request for spawn invokes no tool
\* and is answered "not found", and no step of a run creates a background
\* unit, draws a task id or adds an entry to the live-task map.
SpawnRequested(t) ==
    \E i \in 1..Len(sub[t].messages) :
        sub[t].messages[i].role = "tool" /\ sub[t].messages[i].name = "spawn"

C21_NoRecursiveSpawn ==
    /\ [](/\ ~has(SubagentTools, "spawn")
          /\ \A t \in Units : \A i \in 1..Len(sub[t].invocations) :
                \A k \in 1..Len(sub[t].invocations[i].invoked) :
                    sub[t].invocations[i].invoked[k].tool.name # "spawn"
          /\ \A t \in Units : \A i \in 1..Len(sub[t].messages) :
                (sub[t].messages[i].role = "tool" /\ sub[t].messages[i].name = "spawn") =>
                    sub[t].messages[i].content = <<"Error: Tool '", "spawn", "' not found">>)
    /\ [][event'.op \in {"start", "chat", "chat_failed", "tool"} =>
             /\ uuids' = uuids
             /\ DOMAIN _running_tasks' = DOMAIN _running_tasks
             /\ \A t \in Units : Spawned(t)' <=> Spawned(t)]_vars

C21_Witness ==
    \E t \in Units :
        /\ SpawnRequested(t)
        /\ sub[t].pc = "chat"
        /\ sub[t].iteration = 2
        /\ Len(sub[t].invocations) = 2
        /\ sub[t].invocations[1].invoked = <<>>
        /\ Len(sub[t].invocations[2].invoked) = 1
        /\ sub[t].invocations[2].invoked[1].tool.name = "file"

\* C22: the announcement of a run is the inbound message with channel
\* "system", sender_id "subagent" and chat_id "c:d", where c and d are the
\* origin channel and chat id passed to spawn, kept unchanged through the run;
\* its content carries the task text, "completed successfully" for status ok
\* and "failed" otherwise, and the result text.
StatusText(status) == IF status = "ok" THEN "completed successfully" ELSE "failed"

C22_AnnouncementFormat ==
    /\ [](/\ event.op = "spawn" =>
                /\ sub[event.unit].origin = [channel |-> event.origin_channel,
                                             chat_id |-> event.origin_chat_id]
                /\ sub[event.unit].task = event.task
          /\ (event.op \in {"start", "chat", "chat_failed", "tool"} /\ event.finished) =>
                LET msg == Last(pubIn)
                    t == event.unit
                IN  /\ announced[t] = <<msg>>
                    /\ msg.channel = "system"
                    /\ msg.sender_id = "subagent"
                    /\ msg.chat_id = sub[t].origin.channel \o <<":">> \o sub[t].origin.chat_id
                    /\ Len(msg.chat_id) = 3
                    /\ msg.content[4] = StatusText(event.status)
                    /\ msg.content[7] = sub[t].task
                    /\ msg.content[9] = event.result)
    /\ [][\A t \in Units : Spawned(t) =>
              sub'[t].origin = sub[t].origin /\ sub'[t].task = sub[t].task]_vars

C22_Witness ==
    /\ announced["u1"] # <<>> /\ announced["u2"] # <<>>
    /\ announced["u1"][1].chat_id = <<"telegram", ":", "c1">>
    /\ announced["u1"][1].content[4] = "failed"
    /\ announced["u2"][1].chat_id = <<"cli", ":", "direct">>
    /\ announced["u2"][1].content[4] = "completed successfully"
    /\ announced["u2"][1].content[9] = <<"answer">>

\* C23: the two queues are independent.  A publish or consume on one side
\* leaves the other side's queue and histories as they were, and what
\* consume_inbound returns is the head of the inbound queue, whatever the
\* outbound queue holds.
C23_QueuesIndependent ==
    [][/\ event'.op \in {"publish_outbound", "consume_outbound"} =>
             inbound' = inbound /\ pubIn' = pubIn /\ conIn' = conIn
       /\ event'.op \in {"publish_inbound", "consume_inbound"} =>
             outbound' = outbound /\ pubOut' = pubOut /\ conOut' = conOut
       /\ event'.op = "consume_inbound" =>
             /\ inbound # <<>>
             /\ conIn' = Append(conIn, Head(inbound))
             /\ inbound' = Tail(inbound)
       /\ event'.op = "publish_inbound" =>
             /\ Len(inbound') = Len(inbound) + 1
             /\ SubSeq(inbound', 1, Len(inbound)) = inbound]_vars

C23_Witness ==
    /\ event.op = "consume_inbound"
    /\ Len(outbound) = 2
    /\ Len(conOut) = 1
    /\ inbound # <<>>
    /\ Len(conIn) = 2

\* C24: publish_inbound and publish_outbound never wait.  In every state, for
\* every queue length and with or without suspended consumers, each publish
\* can complete at once, and it completes by appending its message.
Present(q) == \E k \in Consumers : consumers[k].pc # "idle" /\ consumers[k].queue = q

C24_PublishNeverWaits ==
    /\ ~full(inbound) /\ ~full(outbound)
    /\ \A msg \in BusInMsgs : ENABLED publish_inbound(msg)
    /\ \A msg \in BusOutMsgs : ENABLED publish_outbound(msg)
    /\ event.op = "publish_inbound" => inbound # <<>> /\ Last(inbound) = Last(pubIn)
    /\ event.op = "publish_outbound" => outbound # <<>> /\ Last(outbound) = Last(pubOut)

C24_Witness ==
    /\ event.op = "publish_outbound"
    /\ Len(outbound) = MaxPublish
    /\ ~Present("outbound")
    /\ Len(inbound) = 1
    /\ Len(pubIn) = 1
    /\ Present("inbound")

\* C25: a consume call completes only by taking the head of a non-empty queue
\* and is suspended while the queue is empty, until a publish wakes it or it
\* is cancelled; with two consumers on a queue every published message is
\* returned by exactly one call, in publish order, or is still queued.
Completes(k) == consumers[k].pc # "idle" /\ consumers'[k].pc = "idle"

C25_ConsumeExactlyOnce ==
    /\ [](/\ conIn \o inbound = pubIn
          /\ conOut \o outbound = pubOut
          /\ \A q \in QueueNames : \A i \in 1..Len(_getters[q]) :
                /\ consumers[_getters[q][i]] = [pc |-> "waiting", queue |-> q]
                /\ \A j \in 1..Len(_getters[q]) : _getters[q][i] = _getters[q][j] => i = j
          /\ \A k \in Consumers : consumers[k].pc = "waiting" =>
                \E i \in 1..Len(_getters[consumers[k].queue]) :
                    _getters[consumers[k].queue][i] = k)
    /\ [][/\ \A q \in QueueNames :
                event'.op = "consume_" \o q =>
                    /\ Items(q) # <<>>
                    /\ event'.item = Head(Items(q))
                    /\ Items(q)' = Tail(Items(q))
                    /\ Len(conIn') + Len(conOut') = Len(conIn) + Len(conOut) + 1
                    /\ \A k \in Consumers \ {event'.consumer} : ~Completes(k)
          /\ event'.op = "suspend" =>
                /\ Items(event'.queue) = <<>>
                /\ consumers'[event'.consumer].pc = "waiting"
          /\ event'.op \notin {"consume_inbound", "consume_outbound"} =>
                conIn' = conIn /\ conOut' = conOut
          /\ \A k \in Consumers :
                /\ Completes(k) =>
                      /\ event'.op \in {"consume_" \o consumers[k].queue, "consume_cancelled"}
                      /\ event'.consumer = k
                /\ (consumers[k].pc = "waiting" /\ consumers'[k].pc = "woken") =>
                      \/ event'.op = "publish_" \o consumers[k].queue
                      \/ event'.op = "consume_cancelled" /\ Items(consumers[k].queue) # <<>>]_vars

C25_Witness ==
    /\ event.op = "consume_inbound"
    /\ event.consumer = "k2"
    /\ consumers["k1"] = [pc |-> "woken", queue |-> "inbound"]
    /\ inbound = <<>>
    /\ Len(conIn) = 1

\* C26: is_allowed(sender_id) is true exactly when the allow-list is empty, or
\* sender_id is one of its entries, or sender_id contains "|" and one of its
\* non-empty parts between the separators is an entry.
IsPart(s, i, j) ==
    /\ i <= j
    /\ \A n \in i..j : s[n] # "|"
    /\ i = 1 \/ s[i - 1] = "|"
    /\ j = Len(s) \/ s[j + 1] = "|"

AllowedBySpec(s) ==
    \/ allow_from = {}
    \/ s \in allow_from
    \/ /\ \E n \in 1..Len(s) : s[n] = "|"
       /\ \E i, j \in 1..Len(s) : IsPart(s, i, j) /\ SubSeq(s, i, j) \in allow_from

C26_AllowedIff ==
    /\ \A s \in Senders \cup {_sender_id(user) : user \in TelegramUsers} :
          is_allowed(s) <=> AllowedBySpec(s)
    /\ event.op = "_handle_message" =>
          (AllowedBySpec(event.sender_id) <=>
              (pubIn # <<>> /\ Last(pubIn).sender_id = event.sender_id
                            /\ inbound # <<>> /\ Last(inbound) = Last(pubIn)))

C26_Witness ==
    /\ allow_from = {<<>>, <<"2">>}
    /\ event.op = "_handle_message"
    /\ event.sender_id = <<"2", "|">>
    /\ Last(pubIn).sender_id = <<"2", "|">>
    /\ ~is_allowed(<<"|">>)
    /\ ~is_allowed(<<"1", "|", "u">>)
    /\ is_allowed(<<"2", "|", "v">>)

\* C27: the Telegram adapter never replies to a sender for whom is_allowed is
\* false, whichever handler (/start, /help, /new, message) the event arrives
\* through.
C27_SilentDrop ==
    \A i \in 1..Len(replies) :
        replies[i].sender_id # None => is_allowed(replies[i].sender_id)

\* C28: a subagent whose background unit was cancelled in flight has published
\* no announcement, and its done callback still removes its entry from the
\* live-task map.
Cancelled(t) == sub[t].outcome = Exc("CancelledError")

C28_CancelledIsSilent ==
    /\ [](/\ \A t \in Units : Cancelled(t) =>
                /\ announced[t] = <<>>
                /\ \A i \in 1..Len(pubIn) :
                      \E u \in Units \ {t} : ~Cancelled(u) /\ announced[u] = <<pubIn[i]>>
                /\ sub[t].pc = "done" => ENABLED Reap(t)
                /\ sub[t].pc = "reaped" => sub[t].task_id \notin DOMAIN _running_tasks
          /\ Len(pubIn) = SumAnnounced(Units)
          /\ event.op = "cancelled" => HasEntry(event.unit))
    /\ [][/\ event'.op = "cancelled" =>
                inbound' = inbound /\ pubIn' = pubIn /\ announced' = announced
          /\ \A t \in Units : (Cancelled(t) /\ sub'[t].pc = "reaped" /\ sub[t].pc = "done") =>
                /\ sub[t].task_id \in DOMAIN _running_tasks
                /\ get_running_count' = get_running_count - 1]_vars

C28_Witness ==
    /\ Cancelled("u1")
    /\ sub["u1"].pc = "reaped"
    /\ event = [op |-> "reap", unit |-> "u1", task_id |-> sub["u1"].task_id]
    /\ announced["u2"] # <<>>
    /\ pubIn = announced["u2"]
    /\ sub["u2"].pc = "done"
    /\ get_running_count = 1

\* C29 as stated: start() of the Telegram adapter does not return before stop() has been
\* invoked on it, and once stop() has been invoked it eventually returns.
StartReturns(name) ==
    \/ event'.op = "start_channel" /\ event'.channel = name /\ event'.outcome = "returns"
    \/ event'.op = "start_channel_ends" /\ event'.channel = name

StartCalled(name) == name \in DOMAIN start_tasks /\ start_tasks[name] # "created"

StartEnded(name) == name \in DOMAIN start_tasks /\ start_tasks[name] = "ended"

C29_RunsUntilStop ==
    /\ [][StartReturns("telegram") => "telegram" \in Range(stopped)]_vars
    /\ (StartCalled("telegram") /\ "telegram" \in Range(stopped)) ~> StartEnded("telegram")

\* C29, amended: start() of the Telegram adapter with a token configured does
\* not return before stop() has been invoked on it (it raises or keeps
\* running), and once stop() has been invoked it eventually returns; with no
\* token configured it returns at once.
C29_RunsUntilStopWithToken ==
    /\ [][/\ StartReturns("telegram") => ("telegram" \in Range(stopped) \/ token = "")
          /\ (event'.op = "start_channel" /\ event'.channel = "telegram") =>
                IF token = ""
                THEN event'.outcome = "returns" /\ start_tasks'["telegram"] = "ended"
                ELSE event'.outcome \in {"runs", "raises"}
          /\ (event'.op = "start_channel_ends" /\ event'.channel = "telegram") =>
                /\ token # ""
                /\ start_tasks["telegram"] = "running"
                /\ "telegram" \in Range(stopped)]_vars
    /\ ("telegram" \in Range(stopped) /\ StartCalled("telegram"))
          ~> StartEnded("telegram")

C29_Witness ==
    /\ token # ""
    /\ event = [op |-> "start_channel_ends", channel |-> "telegram"]
    /\ start_tasks["telegram"] = "ended"
    /\ stopped = <<"telegram">>
    /\ stop_all_pc.pc = "stop"

\* C30: the registry maps each name to the capability registered last under
\* it and not unregistered since.  register(tool) binds tool.name to tool,
\* replacing an earlier binding and touching no other name; unregister(name)
\* removes that binding only, and changes nothing when the name is absent;
\* get_definitions returns exactly one definition per registered name, that of
\* the bound capability.
DefinitionsOf(name) == {d \in get_definitions(_tools) : d[2] = name}

C30_LastRegistrationWins ==
    /\ [](/\ \A n \in DOMAIN _tools : _tools[n].name = n
          /\ Cardinality(get_definitions(_tools)) = Cardinality(DOMAIN _tools)
          /\ \A n \in ToolNames :
                IF has(_tools, n)
                THEN DefinitionsOf(n) = {<<"schema", n, _tools[n].impl>>}
                ELSE DefinitionsOf(n) = {}
          /\ event.op = "register" => has(_tools, event.name) /\ _tools[event.name] = event.tool
          /\ event.op = "unregister" => ~has(_tools, event.name))
    /\ [][/\ event'.op = "register" =>
                /\ DOMAIN _tools' = DOMAIN _tools \cup {event'.name}
                /\ \A n \in DOMAIN _tools \ {event'.name} : _tools'[n] = _tools[n]
          /\ event'.op = "unregister" =>
                /\ DOMAIN _tools' = DOMAIN _tools \ {event'.name}
                /\ \A n \in DOMAIN _tools' : _tools'[n] = _tools[n]
                /\ ~has(_tools, event'.name) => _tools' = _tools
          /\ event'.op \notin {"register", "unregister"} => _tools' = _tools]_vars

C30_Witness ==
    /\ event.op = "register"
    /\ event.replaced
    /\ event.tool.impl = "b"
    /\ Cardinality(DOMAIN _tools) = 3
    /\ \E n \in DOMAIN _tools \ {event.name} : _tools[n].impl = "a"

\* C31: a subagent's entry leaves the live-task map the instant its
\* background unit finishes: whenever a consumer of the bus takes a step, no
\* unit that has finished is still counted by get_running_count.
C31_RemovedAtFinish ==
    [][event'.op \in {"consume_inbound", "consume_outbound", "suspend"} =>
          /\ \A t \in Units : sub[t].pc = "done" => ~HasEntry(t)
          /\ get_running_count =
                Cardinality({t \in Units : sub[t].pc \in {"scheduled", "chat", "tool"}})]_vars

\* the contents a response without tool calls can carry in a round
FinalContents(round) ==
    {o.value.content : o \in {x \in ChatOutcomes(round) :
                                 x.kind = "return" /\ ~has_tool_calls(x.value)}}

\* the step ends the run of t with an announcement
Announces(t) == event'.unit = t /\ event'.op \in {"start", "chat", "chat_failed", "tool"}
                   /\ event'.finished

\* C32 (as stated): status 'error' is announced exactly when an exception left
\* the loop body; a run that used up its 15 rounds is announced with 'ok' and
\* the fixed fallback text; a run whose last response had no tool calls is
\* announced with 'ok' and the content of that response.
C32_StatusAndResult ==
    [][\A t \in Units : Announces(t) =>
          /\ Len(announced'[t]) = 1
          /\ announced'[t][1].content[4] = StatusText(event'.status)
          /\ announced'[t][1].content[9] = event'.result
          /\ (event'.status = "error") <=> sub'[t].failed
          /\ ~sub'[t].failed => event'.status = "ok"
          /\ (event'.op = "tool" /\ ~sub'[t].failed) =>
                /\ event'.chats = max_iterations
                /\ event'.result = FallbackResult
          /\ (sub[t].pc = "chat" /\ ~sub'[t].failed) =>
                event'.result \in FinalContents(sub[t].iteration)]_vars

\* C32 (amended): as above, except that a last response without tool calls whose
\* content is None is announced with 'ok' and the fixed fallback text instead of
\* its content.
C32_StatusAndResultOrFallback ==
    [][\A t \in Units : Announces(t) =>
          /\ Len(announced'[t]) = 1
          /\ announced'[t][1].content[4] = StatusText(event'.status)
          /\ announced'[t][1].content[9] = event'.result
          /\ (event'.status = "error") <=> sub'[t].failed
          /\ ~sub'[t].failed => event'.status = "ok"
          /\ (event'.op = "tool" /\ ~sub'[t].failed) =>
                /\ event'.chats = max_iterations
                /\ event'.result = FallbackResult
          /\ (sub[t].pc = "chat" /\ ~sub'[t].failed) =>
                /\ event'.result # None
                /\ event'.result \in
                      {IF c = None THEN FallbackResult ELSE c :
                          c \in FinalContents(sub[t].iteration)}]_vars

C32_Witness ==
    /\ event.op = "chat"
    /\ event.finished
    /\ event.status = "ok"
    /\ event.result = FallbackResult
    /\ event.chats < max_iterations
    /\ Len(announced[event.unit]) = 1
    /\ announced[event.unit][1].content[9] = FallbackResult

\* the dispatcher's loop is running and its unit has not been cancelled
DispatcherRuns == Dispatching("consume") \/ Dispatching("send")

\* C33: while the dispatcher runs uncancelled, every message published to the
\* outbound queue is eventually taken by it, provided each send returns or
\* raises; a taken message is handed to the adapter's send or logged as
\* unknown channel in the same step; and no message is lost, in particular
\* when the timed wait expires on a getter that a publish has already woken.
C33_EveryMessageDispatched ==
    /\ [](conOut \o outbound = pubOut)
    /\ [][(conOut' # conOut) =>
             /\ conOut' = Append(conOut, Head(outbound))
             /\ event'.op = "dispatch"
             /\ event'.msg = Head(outbound)
             /\ IF event'.msg.channel \in Range(channels)
                THEN /\ event'.sending
                     /\ sent' = Append(sent, [channel |-> event'.msg.channel,
                                              msg |-> event'.msg, n |-> Len(conOut')])
                     /\ log' = log
                ELSE /\ ~event'.sending
                     /\ sent' = sent
                     /\ log' = Append(log, <<"warning", "Unknown channel: ",
                                             event'.msg.channel>>)]_vars
    /\ [][(event'.op = "dispatch_timeout") =>
             /\ outbound' = outbound
             /\ conOut' = conOut
             /\ consumers'[Dispatcher] = Idle
             /\ _getters'["outbound"] = <<>>]_vars
    /\ \A n \in 1..MaxPublish :
          (DispatcherRuns /\ Len(pubOut) >= n) ~> (Len(conOut) >= n)

\* the timed wait has just expired on a getter that a publish had woken, with
\* that message still queued, after an earlier message was taken and routed
C33_Witness ==
    /\ event.op = "dispatch_timeout"
    /\ event.woken
    /\ outbound # <<>>
    /\ conOut # <<>>
    /\ consumers[Dispatcher] = Idle

\* the messages passed to an adapter's send so far, in call order
SentMsgs == [i \in 1..Len(sent) |-> sent[i].msg]

KnownChannel(msg) == msg.channel \in Range(channels)

\* C34: the manager has at most one adapter send in flight: a send is begun
\* only while none is in flight, and the send that returns is the one begun
\* last; the messages passed to send are, in this order, the messages of
\* registered channels among those published to the outbound queue and taken
\* so far.
C34_OneSendInPublishOrder ==
    /\ [](SentMsgs = SelectSeq(SubSeq(pubOut, 1, Len(conOut)), KnownChannel))
    /\ [](Dispatching("send") => /\ sent # <<>>
                                 /\ _dispatch_task.msg = sent[Len(sent)].msg)
    /\ [][(sent' # sent) =>
             /\ ~Dispatching("send")
             /\ Dispatching("send")'
             /\ Len(sent') = Len(sent) + 1
             /\ SubSeq(sent', 1, Len(sent)) = sent]_vars
    /\ [][(event'.op = "send_returns") =>
             /\ Dispatching("send")
             /\ ~Dispatching("send")'
             /\ event'.n = sent[Len(sent)].n
             /\ sent' = sent]_vars

\* two different messages have been passed to send, one after the other's send
\* returned, while a third waits in the queue during the second send
C34_Witness ==
    /\ Len(sent) = 2
    /\ sent[1].msg # sent[2].msg
    /\ Dispatching("send")
    /\ outbound # <<>>
    /\ SentMsgs = SubSeq(pubOut, 1, 2)

\* C35: a typing-indicator task exists for a chat only while a message of that
\* chat that passed the allow-list check awaits its reply: every chat with a
\* typing task has had a message forwarded to the bus, and the handling of a
\* rejected message leaves no typing task for its chat.
C35_TypingOnlyForAccepted ==
    /\ \A chat_id \in _typing_tasks :
          \E i \in 1..Len(pubIn) :
              pubIn[i].channel = ChannelName /\ pubIn[i].chat_id = chat_id
    /\ (event.op = "_on_message" /\ event.handled /\ ~is_allowed(event.sender_id)) =>
          _typing_tasks = {}

\* C36: between a stop() that has returned and the next start(), no on_heartbeat
\* invocation begins, wherever the loops stood when stop() was called; and a
\* step in which a tick raises leaves the loop running as long as the service
\* is running.
C36_StopIsFinal ==
    /\ [][(heartbeat.last_call = "stop" /\ heartbeat'.last_call = "stop") =>
             /\ heartbeat'.begun = heartbeat.begun
             /\ \A l \in Loops : heartbeat'.loops[l].pc # "tick"
                                    \/ heartbeat.loops[l].pc = "tick"]_vars
    /\ [][(event'.op = "heartbeat_loop" /\ event'.why \in {"OSError", "TickError"}) =>
             IF heartbeat._running
             THEN ~event'.ended /\ heartbeat'.loops[event'.loop].pc = "sleep"
             ELSE event'.ended]_vars
    /\ [](heartbeat.last_call = "stop" => ~heartbeat._running /\ heartbeat._task = None)

\* stop() has returned after two on_heartbeat invocations had begun, every loop
\* has ended, the last one by the CancelledError of stop()'s cancel
C36_Witness ==
    /\ heartbeat.last_call = "stop"
    /\ heartbeat.begun = MaxTicks
    /\ \A l \in Loops : heartbeat.loops[l].pc = "ended"
    /\ event.op = "heartbeat_loop"
    /\ event.why = "CancelledError"

\* C37: in interactive mode every text printed as the response of a turn is
\* the reasoning loop's answer to the input of that turn, never the answer to
\* a message of another source such as a subagent's report.
C37_ResponseIsTurnsReply ==
    \A i \in 1..Len(cli.printed) :
        cli.printed[i].kind = "response" =>
            cli.printed[i].content = ReplyTo(UserInput(cli.printed[i].turn))

\* the text execute returned reports a sent message
IsSent(out) == out[1] = "Message sent to "

\* C38: execute returns a 'Message sent' text exactly when it invoked the send
\* callback once and the callback completed; every error return leaves
\* _sent_in_turn as it was; and _sent_in_turn is true exactly when a callback
\* call has completed since the last start_turn().
C38_SentIffCallbackCompleted ==
    /\ []((event.op = "message_execute" /\ event.returned) =>
            (IsSent(event.out) <=> (event.invoked = 1 /\ event.completed)))
    /\ [][(event'.op = "message_execute" /\ event'.returned /\ ~IsSent(event'.out)) =>
             message_tool'._sent_in_turn = message_tool._sent_in_turn]_vars
    /\ [](message_tool._sent_in_turn <=> message_tool.succeeded)
    /\ [][(event'.op = "start_turn") => ~message_tool'._sent_in_turn]_vars

\* a callback failure has just been returned as an error after an earlier send
\* of the same turn had succeeded
C38_Witness ==
    /\ event.op = "message_execute"
    /\ event.returned
    /\ event.out = <<"Error sending message: ", "SendError">>
    /\ event.invoked = 1
    /\ message_tool._sent_in_turn

\* the conversation of t is the one its pending provider.chat call was given
RequestBuilt(t) == sub[t].pc = "chat"

CountRole(request, role) == Cardinality({i \in 1..Len(request) : request[i].role = role})

ForwardedCalls(request) ==
    Cardinality({i \in 1..Len(request) : request[i].function_call # Nothing})

\* C39: in the request built from the conversation of a loop whose responses
\* were parsed by _parse_response, every FUNCTION message directly follows an
\* ASSISTANT message whose function_call names the tool the result belongs to,
\* and there are as many FUNCTION messages as forwarded function_calls.
C39_FunctionAnswersCall ==
    \A t \in Units : RequestBuilt(t) =>
        LET messages == sub[t].messages
            request == _convert_messages_to_gigachat(messages)
        IN  /\ Len(request) = Len(messages)
            /\ \A i \in 1..Len(request) :
                  request[i].role = "function" =>
                      /\ i > 1
                      /\ request[i - 1].role = "assistant"
                      /\ request[i - 1].function_call # Nothing
                      /\ request[i - 1].function_call.name = messages[i].name
                      /\ messages[i].tool_call_id = messages[i - 1].tool_calls[1].id
                      /\ is_json(request[i].content)
            /\ CountRole(request, "function") = ForwardedCalls(request)

\* a request with two function results, each after its call
C39_Witness ==
    \E t \in Units :
        /\ RequestBuilt(t)
        /\ CountRole(_convert_messages_to_gigachat(sub[t].messages), "function") = 2
        /\ ForwardedCalls(_convert_messages_to_gigachat(sub[t].messages)) = 2
        /\ _convert_messages_to_gigachat(sub[t].messages)[3].function_call =
              [name |-> "web", arguments |-> "boom"]

\* C40: _chunk_text returns for every text and every configured pair
\* (chunk_size, chunk_overlap), and from one pass of its loop to the next the
\* start offset strictly increases.
C40_ChunkingTerminates ==
    /\ <>(rag.pc = "returned")
    /\ [][(rag.pc = "loop" /\ rag'.pc = "loop") => rag'.start > rag.start]_vars

====
